---- MODULE Spec2Model ----
(***************************************************************************)
(* Model of the path security gate of AdvancedFileManager                  *)
(* (src/utils/security.py) and of the components that call it.             *)
(*                                                                         *)
(* Paths are TLA+ strings, handled character by character exactly as the   *)
(* Python code handles them (split on os.sep, startswith, join, dirname).  *)
(* The filesystem is a function from canonical absolute paths to nodes.    *)
(***************************************************************************)
EXTENDS Integers, Sequences, FiniteSets, TLC

(***************************************************************************)
(* Program constants                                                       *)
(***************************************************************************)
\* security.py:9-14
FORBIDDEN_PATHS ==
    << "/bin", "/sbin", "/usr/bin", "/usr/sbin",
       "/etc", "/proc", "/sys", "/dev",
       "/lib", "/lib64", "/usr/lib", "/usr/lib64",
       "/boot", "/var/log", "/var/spool" >>

\* security.py:20
MAX_SYMLINK_DEPTH == 5

\* The number of symbolic links the kernel follows in one path walk before
\* it fails with ELOOP (Linux MAXSYMLINKS): the limit behind os.lstat,
\* os.stat and os.access as called from security.py.
MAXSYMLINKS == 40

\* A path walk of the kernel takes at most 2^WalkLog steps (one per path
\* component), more than any walk over the paths of this model needs.
WalkLog == 7

\* Python values that are not str objects (None, an int) are written as
\* these two strings, which no path of the model equals.
PyNone == "<None>"
PyInt == "<int>"
NonStr == {PyNone, PyInt}

(***************************************************************************)
(* String primitives (str methods and posixpath functions)                 *)
(***************************************************************************)
sep == "/"

\* The element of a one-element set.  Only({ F(x) : x \in {e} }) is F(e) with
\* the value of e computed once and named x, as a Python local variable
\* holds a value that was computed once.
Only(S) == CHOOSE x \in S : TRUE

CharAt(s, i) == SubSeq(s, i, i)

\* str.startswith
StartsWith(s, p) == Len(p) <= Len(s) /\ SubSeq(s, 1, Len(p)) = p

\* str.endswith
EndsWith(s, p) == Len(p) <= Len(s) /\ SubSeq(s, Len(s) - Len(p) + 1, Len(s)) = p

\* str.find(sep) counted from 1; 0 when there is no separator
FindSep(s, i) ==
    LET found == { j \in i..Len(s) : CharAt(s, j) = sep }
    IN  IF found = {} THEN 0 ELSE CHOOSE j \in found : \A k \in found : j <= k

\* str.rfind(sep) counted from 1; 0 when there is no separator
RFindSep(s, i) ==
    LET found == { j \in 1..i : CharAt(s, j) = sep }
    IN  IF found = {} THEN 0 ELSE CHOOSE j \in found : \A k \in found : j >= k

\* The positions of the separators in s
SepPositions(s) == { j \in 1..Len(s) : CharAt(s, j) = sep }

\* str.split(os.sep): component k lies between the separators k - 1 and k
Split(s) ==
    Only({ LET Nth(k) == IF k = 0 THEN 0
                         ELSE IF k > Cardinality(P) THEN Len(s) + 1
                         ELSE CHOOSE j \in P : Cardinality({ i \in P : i < j }) = k - 1
           IN  [ k \in 1..(Cardinality(P) + 1) |->
                   SubSeq(s, Nth(k - 1) + 1, Nth(k) - 1) ] :
           P \in {SepPositions(s)} })

\* str.partition(sep): the part before the first separator and the part after
Partition(s) ==
    Only({ IF i = 0 THEN [name |-> s, rest |-> ""]
           ELSE [name |-> SubSeq(s, 1, i - 1), rest |-> SubSeq(s, i + 1, Len(s))] :
           i \in {FindSep(s, 1)} })

\* str.rstrip('/')
RStripSep(s) ==
    LET kept == { j \in 1..Len(s) : CharAt(s, j) # sep }
    IN  IF kept = {} THEN ""
        ELSE SubSeq(s, 1, CHOOSE j \in kept : \A k \in kept : j >= k)

\* s consists of separators only (s == '/' * len(s))
AllSep(s) == RStripSep(s) = ""

\* posixpath.isabs
isabs(s) == StartsWith(s, sep)

\* posixpath.join(a, b)
join(a, b) ==
    IF isabs(b) THEN b
    ELSE IF a = "" \/ EndsWith(a, sep) THEN a \o b
    ELSE a \o sep \o b

\* posixpath.split(p): (head, tail)
split(p) ==
    Only({ [head |-> IF head # "" /\ ~AllSep(head) THEN RStripSep(head) ELSE head,
            tail |-> SubSeq(p, Len(head) + 1, Len(p))] :
           head \in {SubSeq(p, 1, RFindSep(p, Len(p)))} })

\* posixpath.dirname
dirname(p) == split(p).head

\* posixpath.basename
basename(p) == SubSeq(p, RFindSep(p, Len(p)) + 1, Len(p))

\* posixpath.normpath: the body of the loop over the components, for comp
NormStep(new_comps, comp, initial) ==
    IF comp = "" \/ comp = "." THEN new_comps
    ELSE IF comp # ".."
            \/ (initial = 0 /\ new_comps = << >>)
            \/ (new_comps # << >> /\ new_comps[Len(new_comps)] = "..")
         THEN Append(new_comps, comp)
    ELSE IF new_comps # << >> THEN SubSeq(new_comps, 1, Len(new_comps) - 1)
    ELSE new_comps

\* posixpath.normpath: the loop over the components, from component i on
RECURSIVE NormComps(_, _, _, _)
NormComps(comps, i, new_comps, initial) ==
    IF i > Len(comps) THEN new_comps
    ELSE Only({ NormComps(comps, i + 1, next, initial) :
                next \in {NormStep(new_comps, comps[i], initial)} })

\* sep.join(comps), from component i on
RECURSIVE JoinComps(_, _)
JoinComps(comps, i) ==
    IF i > Len(comps) THEN ""
    ELSE IF i = Len(comps) THEN comps[i]
    ELSE comps[i] \o sep \o JoinComps(comps, i + 1)

\* posixpath.normpath
normpath(p) ==
    IF p = "" THEN "."
    ELSE LET initial == IF ~isabs(p) THEN 0
                        ELSE IF StartsWith(p, "//") /\ ~StartsWith(p, "///") THEN 2
                        ELSE 1
             lead == IF initial = 2 THEN "//" ELSE IF initial = 1 THEN "/" ELSE ""
         IN  Only({ IF lead \o JoinComps(comps, 1) = "" THEN "."
                    ELSE lead \o JoinComps(comps, 1) :
                    comps \in { NormComps(c, 1, << >>, initial) : c \in {Split(p)} } })

(***************************************************************************)
(* The filesystem and the operating system's path walk                     *)
(*                                                                         *)
(* A filesystem maps the canonical absolute path of every existing entry   *)
(* to its node: kind is "dir", "file" or "link"; target is the text stored *)
(* in a symbolic link; mode is the set of access(2) modes ("r", "w", "x")  *)
(* the process is granted on the node; gone marks a symbolic link that     *)
(* another process removes between the islink test and the readlink of     *)
(* validate_path, so that this readlink fails.                             *)
(***************************************************************************)
\* os.getcwd(): the directory relative paths start from
getcwd == "/media"

Node(kind, target, mode, gone) ==
    [kind |-> kind, target |-> target, mode |-> mode, gone |-> gone]
\* Every access mode
AllModes == {"r", "w", "x"}

Dir(mode) == Node("dir", "", mode, FALSE)
File(mode) == Node("file", "", mode, FALSE)
Link(target) == Node("link", target, {"r", "w", "x"}, FALSE)
RaceLink(target) == Node("link", target, {"r", "w", "x"}, TRUE)

\* Result of a path walk: err is "" and node the canonical path reached, or
\* err is the errno name.
Found(p) == [err |-> "", node |-> p]
Failed(e) == [err |-> e, node |-> ""]

\* One component of the kernel's path walk (path_resolution(7)): cur is the
\* canonical path of the directory reached so far, rest the text still to
\* walk, follow says whether a symbolic link in the last component is
\* followed (stat) or not (lstat), n counts the symbolic links followed.
\* A component followed by a separator is not the last one, so that a path
\* ending in a separator names a directory.
\* The result is final (done, with res) or the walk's next position.
OsStop(res) == [done |-> TRUE, res |-> res, cur |-> "", rest |-> "", n |-> 0]
OsGo(cur, rest, n) ==
    IF rest = "" THEN OsStop(Found(cur))
    ELSE [done |-> FALSE, res |-> Failed(""), cur |-> cur, rest |-> rest, n |-> n]

OsComponent(fs, w, follow, name, r, last, child) ==
    IF name = "" \/ name = "." THEN OsGo(w.cur, r, w.n)
    ELSE IF name = ".." THEN OsGo(dirname(w.cur), r, w.n)
    ELSE IF child \notin DOMAIN fs THEN OsStop(Failed("ENOENT"))
    ELSE IF fs[child].kind = "dir" THEN OsGo(child, r, w.n)
    ELSE IF fs[child].kind = "file"
         THEN IF last THEN OsStop(Found(child)) ELSE OsStop(Failed("ENOTDIR"))
    ELSE IF last /\ ~follow THEN OsStop(Found(child))
    ELSE IF w.n >= MAXSYMLINKS THEN OsStop(Failed("ELOOP"))
    ELSE IF fs[child].target = "" THEN OsStop(Failed("ENOENT"))
    ELSE OsGo(IF isabs(fs[child].target) THEN sep ELSE w.cur,
              IF last THEN fs[child].target
                      ELSE fs[child].target \o sep \o r,
              w.n + 1)

OsStep(fs, w, follow) ==
    Only({ OsComponent(fs, w, follow, p.name, p.rest, i = 0, child) :
           p \in {Partition(w.rest)}, i \in {FindSep(w.rest, 1)},
           child \in {join(w.cur, Partition(w.rest).name)} })

\* OsWalk(fs, w, follow, k) takes up to 2^k steps from position w and stops
\* at the first final result.
RECURSIVE OsWalk(_, _, _, _)
OsWalk(fs, w0, follow, k) ==
    CHOOSE r \in { IF w.done THEN w
                   ELSE IF k = 0 THEN OsStep(fs, w, follow)
                   ELSE OsWalk(fs, OsWalk(fs, w, follow, k - 1), follow, k - 1) :
                   w \in {w0} } : TRUE

\* The walk as a loop: runs of 1, 2, 4, ... 2^WalkLog steps from position w,
\* until a final result.
RECURSIVE OsLoop(_, _, _, _)
OsLoop(fs, w0, follow, k) ==
    CHOOSE r \in { IF w.done \/ k > WalkLog THEN w
                   ELSE OsLoop(fs, OsWalk(fs, w, follow, k), follow, k + 1) :
                   w \in {w0} } : TRUE

OsResolve(fs, path0, follow) ==
    Only({ IF path = "" THEN Failed("ENOENT")
           ELSE OsLoop(fs, OsGo(IF isabs(path) THEN sep ELSE getcwd, path, 0),
                       follow, 0).res :
           path \in {path0} })

\* os.lstat / os.stat: the walk without / with following a final link
lstat(fs, path) == OsResolve(fs, path, FALSE)
stat(fs, path) == OsResolve(fs, path, TRUE)

\* os.path.islink
islink(fs, path) ==
    \E st \in {lstat(fs, path)} : st.err = "" /\ fs[st.node].kind = "link"

\* os.readlink (called on links only)
readlink(fs, path) == fs[lstat(fs, path).node].target

\* os.path.exists
exists(fs, path) == stat(fs, path).err = ""

\* os.path.isdir
isdir(fs, path) ==
    \E st \in {stat(fs, path)} : st.err = "" /\ fs[st.node].kind = "dir"

\* os.access(path, mode) for mode R_OK ("r"), W_OK ("w"), X_OK ("x")
access(fs, path, mode) ==
    \E st \in {stat(fs, path)} : st.err = "" /\ mode \in fs[st.node].mode

(***************************************************************************)
(* posixpath.realpath (strict=False)                                       *)
(***************************************************************************)
\* posixpath.abspath
abspath(p0) ==
    Only({ normpath(q) : q \in { IF isabs(p) THEN p ELSE join(getcwd, p) : p \in {p0} } })

\* posixpath._joinrealpath: path is the part resolved so far, rest the part
\* still to resolve, seen maps every link met to its resolution, or to
\* PyNone while the link is being resolved.  The result carries the path,
\* whether resolution succeeded (no symlink loop), and the updated seen.
\* The branch for the component '..': the parent of path
joinrealpath_pardir(path) ==
    IF path = "" THEN ".."
    ELSE IF split(path).tail = ".." THEN join(join(split(path).head, ".."), "..")
    ELSE split(path).head

RECURSIVE joinrealpath(_, _, _, _)
RECURSIVE joinrealpath_loop(_, _, _, _)
joinrealpath(fs, path, rest0, seen) ==
    CHOOSE res \in
      { joinrealpath_loop(fs, IF isabs(rest) THEN sep ELSE path,
                          IF isabs(rest) THEN SubSeq(rest, 2, Len(rest)) ELSE rest,
                          seen) :
        rest \in {rest0} } : TRUE

\* The while loop: rest is partitioned into its first component p.name and
\* the remainder p.rest; newpath, its parent up and link (islink(newpath))
\* are the values the body of the loop computes from them.
joinrealpath_loop(fs, path, rest, seen) ==
    IF rest = "" THEN [path |-> path, ok |-> TRUE, seen |-> seen]
    ELSE CHOOSE res \in
      { CASE p.name \in {"", "."} -> joinrealpath_loop(fs, path, p.rest, seen)
          [] p.name = ".." -> joinrealpath_loop(fs, up, p.rest, seen)
          [] p.name \notin {"", ".", ".."} /\ ~link ->
                joinrealpath_loop(fs, newpath, p.rest, seen)
          [] p.name \notin {"", ".", ".."} /\ link /\ newpath \in DOMAIN seen ->
                IF seen[newpath] # PyNone
                THEN joinrealpath_loop(fs, seen[newpath], p.rest, seen)
                ELSE [path |-> join(newpath, p.rest), ok |-> FALSE, seen |-> seen]
          [] OTHER ->
                CHOOSE res2 \in
                  { IF ~sub.ok
                    THEN [path |-> join(sub.path, p.rest), ok |-> FALSE,
                          seen |-> sub.seen]
                    ELSE joinrealpath_loop(fs, sub.path, p.rest,
                                           (newpath :> sub.path) @@ sub.seen) :
                    sub \in {joinrealpath(fs, path, readlink(fs, newpath),
                                          (newpath :> PyNone) @@ seen)} } : TRUE :
        p \in {Partition(rest)},
        newpath \in {join(path, Partition(rest).name)},
        up \in {joinrealpath_pardir(path)},
        link \in {islink(fs, join(path, Partition(rest).name))} } : TRUE

realpath(fs, filename) ==
    CHOOSE res \in { abspath(r.path) :
                     r \in {joinrealpath(fs, "", filename, << >>)} } : TRUE

(***************************************************************************)
(* SecurityManager (src/utils/security.py)                                 *)
(*                                                                         *)
(* The result of a call is a record: kind "ret" with the returned value,   *)
(* kind "raise" with the message of the SecurityError raised, or kind      *)
(* "error" with the name of any other exception raised.                    *)
(***************************************************************************)
Ret(v) == [kind |-> "ret", val |-> v]
Raise(msg) == [kind |-> "raise", val |-> msg]
Error(e) == [kind |-> "error", val |-> e]

\* The character standing for '\x00' in a path
NUL == "@"

Contains(s, c) == \E i \in 1..Len(s) : CharAt(s, i) = c

\* x in seq
InSeq(x, seq) == \E i \in 1..Len(seq) : seq[i] = x

\* The traversal test of security.py:50-53 left out
TraversalMatchNever(real_path) == FALSE

\* The traversal test with == in place of startswith
TraversalMatchExact(real_path) ==
    \E i \in 1..Len(FORBIDDEN_PATHS) : real_path = FORBIDDEN_PATHS[i]

\* security.py:52  any(real_path.startswith(forbidden) for forbidden in ...)
TraversalMatch(real_path) ==
    \E i \in 1..Len(FORBIDDEN_PATHS) : StartsWith(real_path, FORBIDDEN_PATHS[i])

\* security.py:58  the test of the forbidden-path loop for one entry
ForbiddenMatch(real_path, forbidden) ==
    real_path = forbidden \/ StartsWith(real_path, forbidden \o sep)

\* security.py:56-59  the first entry of FORBIDDEN_PATHS that matches; 0 if none
FirstForbidden(real_path) ==
    LET matching == { i \in 1..Len(FORBIDDEN_PATHS) :
                        ForbiddenMatch(real_path, FORBIDDEN_PATHS[i]) }
    IN  IF matching = {} THEN 0
        ELSE CHOOSE i \in matching : \A j \in matching : i <= j

\* security.py:62-65  the target the recursive call is made on
link_target(fs, path) ==
    Only({ IF ~isabs(target) THEN join(dirname(path), target) ELSE target :
           target \in {readlink(fs, path)} })

\* security.py:40-69  validate_path after its depth guard and up to its
\* recursive call: the result of the call, or kind "call" when the path is a
\* symbolic link, with the target to validate at _depth + 1 and the value
\* returned if that succeeds.
validate_path_checks(fs, path) ==
    IF path = "" \/ path \in NonStr THEN Raise("Invalid path type")
    ELSE IF Contains(path, NUL)
    THEN Raise("Path resolution failed: embedded null byte")
    ELSE CHOOSE res \in
           { IF InSeq("..", Split(path)) /\ TraversalMatch(real_path)
             THEN Raise("Directory traversal attempt detected")
             ELSE IF FirstForbidden(real_path) # 0
             THEN Raise("Access denied to system path: "
                        \o FORBIDDEN_PATHS[FirstForbidden(real_path)])
             ELSE IF ~islink(fs, path) THEN Ret(real_path)
             ELSE IF fs[lstat(fs, path).node].gone THEN Error("OSError")
             ELSE [kind |-> "call", val |-> link_target(fs, path), ret |-> real_path] :
             real_path \in {realpath(fs, path)} } : TRUE

\* validate_path without the depth guard of security.py:37-38
validate_path_unguarded(fs, path, depth) == validate_path_checks(fs, path)

\* validate_path with >= in place of > in the depth guard of security.py:37
validate_path_off_by_one(fs, path, depth) ==
    IF depth >= MAX_SYMLINK_DEPTH
    THEN Raise("Symlink resolution depth exceeded - possible circular reference")
    ELSE validate_path_checks(fs, path)

\* security.py:37-69  validate_path up to its recursive call
validate_path_body(fs, path, depth) ==
    IF depth > MAX_SYMLINK_DEPTH
    THEN Raise("Symlink resolution depth exceeded - possible circular reference")
    ELSE validate_path_checks(fs, path)

\* The except clause of security.py:70-71 re-raising the failure it caught
validate_path_reraise(real_path, sub) ==
    IF sub.kind \in {"raise", "error"} THEN sub ELSE Ret(real_path)

\* security.py:67-73  what validate_path does with the result sub of its
\* recursive call, real_path being its local variable
validate_path_after(real_path, sub) ==
    IF sub.kind = "raise" THEN Raise("Symlink points to forbidden location")
    ELSE IF sub.kind = "error" THEN sub
    ELSE Ret(real_path)

\* security.py:22-73
RECURSIVE validate_path(_, _, _)
validate_path(fs, path, depth) ==
    Only({ IF body.kind = "call"
           THEN validate_path_after(body.ret, validate_path(fs, body.val, depth + 1))
           ELSE body :
           body \in {validate_path_body(fs, path, depth)} })

\* The delete check of security.py:136-139 without the parent directory
check_permissions_access_path_only(fs, path, operation) ==
    IF operation = "read" THEN Ret(access(fs, path, "r"))
    ELSE IF operation = "write" THEN Ret(access(fs, path, "w"))
    ELSE IF operation = "execute" THEN Ret(access(fs, path, "x"))
    ELSE IF operation = "delete" THEN Ret(access(fs, path, "w"))
    ELSE Ret(FALSE)

\* security.py:130-141  the access check the operation selects
check_permissions_access(fs, path, operation) ==
    IF operation = "read" THEN Ret(access(fs, path, "r"))
    ELSE IF operation = "write" THEN Ret(access(fs, path, "w"))
    ELSE IF operation = "execute" THEN Ret(access(fs, path, "x"))
    ELSE IF operation = "delete"
         THEN Ret(access(fs, dirname(path), "w") /\ access(fs, path, "w"))
    ELSE Ret(FALSE)

\* The checks of security.py:123-141 without the step to the parent
\* directory of a path that does not exist
check_permissions_path_no_parent(fs, path, operation) ==
    IF ~exists(fs, path) THEN Ret(FALSE)
    ELSE check_permissions_access(fs, path, operation)

\* security.py:123-141  check_permissions on the validated path
check_permissions_path(fs, path, operation) ==
    IF ~exists(fs, path) /\ operation \notin {"write", "delete"} THEN Ret(FALSE)
    ELSE check_permissions_access(
             fs, IF ~exists(fs, path) THEN dirname(path) ELSE path, operation)

\* check_permissions without the validate_path call of security.py:121
check_permissions_unvalidated(fs, path0, operation) ==
    check_permissions_path(fs, path0, operation)

\* security.py:109-144
check_permissions(fs, path0, operation) ==
    Only({ IF v.kind = "raise" THEN Ret(FALSE)
           ELSE IF v.kind = "error" THEN v
           ELSE check_permissions_path(fs, v.val, operation) :
           v \in {validate_path(fs, path0, 0)} })

\* security.py:186-188  the forbidden-path loop over the existing destination
OverwriteForbidden(dst_real) ==
    \E i \in 1..Len(FORBIDDEN_PATHS) :
        dst_real = FORBIDDEN_PATHS[i] \/ StartsWith(dst_real, FORBIDDEN_PATHS[i] \o sep)

\* The checks after the destination checks with the delete-permission check
\* of security.py:191-193 applied to 'move' as well
is_safe_operation_tail_move(fs, src_real, operation) ==
    IF operation \notin {"delete", "move"} THEN Ret(<<TRUE, "Safe">>)
    ELSE Only({ IF d.kind = "error" THEN d
                ELSE IF ~d.val THEN Ret(<<FALSE, "No permission to delete">>)
                ELSE Ret(<<TRUE, "Safe">>) :
                d \in {check_permissions(fs, src_real, "delete")} })

\* security.py:190-195  the checks after the destination checks
is_safe_operation_tail(fs, src_real, operation) ==
    IF operation # "delete" THEN Ret(<<TRUE, "Safe">>)
    ELSE Only({ IF d.kind = "error" THEN d
                ELSE IF ~d.val THEN Ret(<<FALSE, "No permission to delete">>)
                ELSE Ret(<<TRUE, "Safe">>) :
                d \in {check_permissions(fs, src_real, "delete")} })

\* is_safe_operation without its destination checks (security.py:170-188)
is_safe_operation_dst_unchecked(fs, src_real, dst, operation) ==
    is_safe_operation_tail(fs, src_real, operation)

\* security.py:170-195  the destination checks and what follows them
is_safe_operation_dst(fs, src_real, dst, operation) ==
    IF dst = "" \/ dst = PyNone THEN is_safe_operation_tail(fs, src_real, operation)
    ELSE Only({
        IF d.kind = "raise" THEN Ret(<<FALSE, "Invalid destination: " \o d.val>>)
        ELSE IF d.kind = "error" THEN d
        ELSE IF ~exists(fs, dirname(d.val))
        THEN Ret(<<FALSE, "Destination directory does not exist">>)
        ELSE Only({
            IF w.kind = "error" THEN w
            ELSE IF ~w.val
            THEN Ret(<<FALSE, "No write permission on destination directory">>)
            ELSE IF exists(fs, d.val) /\ OverwriteForbidden(d.val)
            THEN Ret(<<FALSE, "Cannot overwrite system file">>)
            ELSE is_safe_operation_tail(fs, src_real, operation) :
            w \in {check_permissions(fs, dirname(d.val), "write")} }) :
        d \in {validate_path(fs, dst, 0)} })

\* security.py:159-195  the body of the try block
is_safe_operation_try(fs, src, dst, operation) ==
    Only({
        IF s.kind # "ret" THEN s
        ELSE IF ~exists(fs, s.val) THEN Ret(<<FALSE, "Source does not exist">>)
        ELSE Only({
            IF r.kind = "error" THEN r
            ELSE IF ~r.val THEN Ret(<<FALSE, "No read permission on source">>)
            ELSE is_safe_operation_dst(fs, s.val, dst, operation) :
            r \in {check_permissions(fs, s.val, "read")} }) :
        s \in {validate_path(fs, src, 0)} })

\* The except clauses without the handler of security.py:199-200
is_safe_operation_except_security(t) ==
    IF t.kind = "raise" THEN Ret(<<FALSE, t.val>>) ELSE t

\* security.py:197-200  the except clauses
is_safe_operation_except(t) ==
    IF t.kind = "raise" THEN Ret(<<FALSE, t.val>>)
    ELSE IF t.kind = "error" THEN Ret(<<FALSE, "Unexpected error: " \o t.val>>)
    ELSE t

\* security.py:146-200
is_safe_operation(fs, src, dst, operation) ==
    is_safe_operation_except(is_safe_operation_try(fs, src, dst, operation))

(***************************************************************************)
(* Operating system and shutil calls that change the filesystem            *)
(*                                                                         *)
(* The result of a call is the filesystem after it, err ("" or the name of *)
(* the error raised) and node, the canonical path of the entry the call    *)
(* created, removed, moved or wrote.                                       *)
(***************************************************************************)
Done(f, node) == [fs |-> f, err |-> "", node |-> node]
Fails(f, e) == [fs |-> f, err |-> e, node |-> ""]

\* q is the entry p or lies under it
Under(p, q) == q = p \/ StartsWith(q, IF p = sep THEN sep ELSE p \o sep)

\* The filesystem without the entry p and everything under it
Without(f, p) == [ q \in { x \in DOMAIN f : ~Under(p, x) } |-> f[q] ]

\* The entry p and everything under it, placed at d
TreeAt(f, p, d) ==
    [ q \in { d \o SubSeq(x, Len(p) + 1, Len(x)) : x \in { y \in DOMAIN f : Under(p, y) } }
        |-> f[p \o SubSeq(q, Len(d) + 1, Len(q))] ]

\* The directory node is writable by the process
Writable(f, node) == "w" \in f[node].mode

\* The canonical path a new entry named path gets: its parent directory must
\* exist and be writable
NewEntry(f, path) ==
    Only({ IF parent.err # "" THEN Fails(f, parent.err)
           ELSE IF f[parent.node].kind # "dir" THEN Fails(f, "ENOTDIR")
           ELSE IF ~Writable(f, parent.node) THEN Fails(f, "EACCES")
           ELSE Done(f, join(parent.node, basename(p))) :
           p \in {join(getcwd, path)},
           parent \in {stat(f, dirname(join(getcwd, path)))} })

\* os.remove
os_remove(f, path) ==
    Only({ IF st.err # "" THEN Fails(f, st.err)
           ELSE IF f[st.node].kind = "dir" THEN Fails(f, "EISDIR")
           ELSE IF ~Writable(f, dirname(st.node)) THEN Fails(f, "EACCES")
           ELSE Done(Without(f, st.node), st.node) :
           st \in {lstat(f, path)} })

\* shutil.rmtree (of the root directory: its entries are removed and the
\* rmdir of the directory itself fails)
shutil_rmtree(f, path) ==
    IF islink(f, path) THEN Fails(f, "OSError")
    ELSE Only({ IF st.err # "" THEN Fails(f, st.err)
                ELSE IF f[st.node].kind # "dir" THEN Fails(f, "ENOTDIR")
                ELSE IF st.node = sep
                THEN Fails((sep :> f[sep]) @@ Without(f, sep), "EBUSY")
                ELSE IF ~Writable(f, dirname(st.node)) THEN Fails(f, "EACCES")
                ELSE Done(Without(f, st.node), st.node) :
                st \in {stat(f, path)} })

\* os.mkdir
os_mkdir(f, path) ==
    IF lstat(f, path).err = "" THEN Fails(f, "EEXIST")
    ELSE Only({ IF n.err # "" THEN n
                ELSE Done((n.node :> Dir(AllModes)) @@ f, n.node) :
                n \in {NewEntry(f, path)} })

\* os.makedirs
RECURSIVE os_makedirs(_, _, _)
os_makedirs(f, name, exist_ok) ==
    Only({ Only({
        IF up.err \notin {"", "EEXIST"} THEN up
        ELSE Only({ IF made.err # "" /\ exist_ok /\ isdir(up.fs, name)
                    THEN Done(up.fs, "")
                    ELSE made :
                    made \in {os_mkdir(up.fs, name)} }) :
        up \in { IF sp.head # "" /\ sp.tail # "" /\ ~exists(f, sp.head)
                 THEN os_makedirs(f, sp.head, exist_ok)
                 ELSE Done(f, "") } }) :
        sp \in { IF split(name).tail = "" THEN split(split(name).head)
                 ELSE split(name) } })

\* open(path, 'w'): the file written is the one path leads to, created if
\* there is none
os_create(f, path) ==
    Only({ IF st.err = ""
           THEN IF f[st.node].kind = "dir" THEN Fails(f, "EISDIR")
                ELSE IF ~Writable(f, st.node) THEN Fails(f, "EACCES")
                ELSE Done(f, st.node)
           ELSE IF st.err # "ENOENT" THEN Fails(f, st.err)
           ELSE Only({ IF n.err # "" THEN n
                       ELSE Done((n.node :> File(AllModes)) @@ f, n.node) :
                       n \in {NewEntry(f, IF lstat(f, path).err = ""
                                          THEN link_target(f, path) ELSE path)} }) :
           st \in {stat(f, path)} })

\* open(path, 'w') followed by the writing of text: the text of a written
\* file is kept in the target field of its node
os_write(f, path, text) ==
    Only({ IF made.err # "" THEN made
           ELSE Done([made.fs EXCEPT ![made.node].target = text], made.node) :
           made \in {os_create(f, path)} })

\* open(path, 'r') followed by the reading of the text
os_read(f, path) ==
    Only({ IF st.err # "" THEN Fails(f, st.err)
           ELSE IF f[st.node].kind = "dir" THEN Fails(f, "EISDIR")
           ELSE IF "r" \notin f[st.node].mode THEN Fails(f, "EACCES")
           ELSE [fs |-> f, err |-> "", node |-> f[st.node].target] :
           st \in {stat(f, path)} })

\* shutil.copy2
shutil_copy2(f, src, dst0) ==
    Only({ IF s.err # "" THEN Fails(f, s.err)
           ELSE IF f[s.node].kind = "dir" THEN Fails(f, "EISDIR")
           ELSE IF stat(f, dst) = s THEN Fails(f, "SameFileError")
           ELSE IF "r" \notin f[s.node].mode THEN Fails(f, "EACCES")
           ELSE os_create(f, dst) :
           dst \in {IF isdir(f, dst0) THEN join(dst0, basename(src)) ELSE dst0},
           s \in {stat(f, src)} })

\* shutil.copytree: the entries of the tree are copied, a symbolic link as
\* the file it leads to
shutil_copytree(f, src, dst, dirs_exist_ok) ==
    Only({
        IF s.err # "" THEN Fails(f, s.err)
        ELSE IF f[s.node].kind # "dir" THEN Fails(f, "ENOTDIR")
        ELSE Only({
            IF made.err # "" THEN made
            ELSE Only({
                IF Under(s.node, d.node) THEN Fails(made.fs, "RecursionError")
                ELSE Only({ Done([ q \in DOMAIN tree |->
                                     IF tree[q].kind = "link" THEN File(AllModes)
                                     ELSE tree[q] ]
                                 @@ made.fs, d.node) :
                            tree \in {TreeAt(f, s.node, d.node)} }) :
                d \in {stat(made.fs, dst)} }) :
            made \in {os_makedirs(f, dst, dirs_exist_ok)} }) :
        s \in {stat(f, src)} })

\* os.rename
os_rename(f, src, dst) ==
    Only({ Only({
        IF s.err # "" THEN Fails(f, s.err)
        ELSE IF s.node = sep THEN Fails(f, "EBUSY")
        ELSE IF ~Writable(f, dirname(s.node)) THEN Fails(f, "EACCES")
        ELSE IF d.err # "" /\ n.err # "" THEN n
        ELSE IF to = s.node THEN Done(f, to)
        ELSE IF Under(s.node, to) THEN Fails(f, "EINVAL")
        ELSE IF d.err = "" /\ f[d.node].kind = "dir" /\ f[s.node].kind # "dir"
             THEN Fails(f, "EISDIR")
        ELSE IF d.err = "" /\ f[d.node].kind # "dir" /\ f[s.node].kind = "dir"
             THEN Fails(f, "ENOTDIR")
        ELSE IF d.err = "" /\ \E q \in DOMAIN f : q # d.node /\ Under(d.node, q)
             THEN Fails(f, "ENOTEMPTY")
        ELSE IF ~Writable(f, dirname(to)) THEN Fails(f, "EACCES")
        ELSE Done(TreeAt(f, s.node, to) @@ Without(Without(f, s.node), to), to) :
        to \in {IF d.err = "" THEN d.node ELSE n.node} }) :
        s \in {lstat(f, src)}, d \in {lstat(f, dst)}, n \in {NewEntry(f, dst)} })

\* shutil._destinsrc
destinsrc(src, dst) ==
    LET s == abspath(src)
        d == abspath(dst)
    IN  StartsWith(IF EndsWith(d, sep) THEN d ELSE d \o sep,
                   IF EndsWith(s, sep) THEN s ELSE s \o sep)

\* shutil.move: os.rename, and on its failure a copy followed by the removal
\* of the source
shutil_move(f, src, dst) ==
    Only({
        IF real_dst # dst /\ exists(f, real_dst) THEN Fails(f, "Error")
        ELSE Only({
            IF renamed.err = "" THEN renamed
            ELSE IF islink(f, src) THEN renamed
            ELSE IF isdir(f, src) /\ destinsrc(src, dst) THEN Fails(f, "Error")
            ELSE Only({
                IF copied.err # "" THEN copied
                ELSE Only({ IF removed.err # "" THEN removed
                            ELSE Done(removed.fs, copied.node) :
                            removed \in {IF isdir(f, src)
                                         THEN shutil_rmtree(copied.fs, src)
                                         ELSE os_remove(copied.fs, src)} }) :
                copied \in {IF isdir(f, src)
                            THEN shutil_copytree(f, src, real_dst, FALSE)
                            ELSE shutil_copy2(f, src, real_dst)} }) :
            renamed \in {os_rename(f, src, real_dst)} }) :
        real_dst \in {IF isdir(f, dst) /\ stat(f, src) # stat(f, dst)
                      THEN join(dst, basename(RStripSep(src))) ELSE dst} })

(***************************************************************************)
(* The file operations of the application                                  *)
(*                                                                         *)
(* An operation gives the gate calls and the filesystem calls it made, in  *)
(* order, the filesystem it leaves, and its result: the value returned or  *)
(* the exception raised.                                                   *)
(***************************************************************************)
Exc(class, msg) == [kind |-> class, val |-> msg]
Ev(call, src, dst, ok, node, reason) ==
    [call |-> call, src |-> src, dst |-> dst, ok |-> ok, node |-> node,
     reason |-> reason]
ValidateEv(path, v) ==
    Ev("validate_path", path, "", v.kind = "ret",
       IF v.kind = "ret" THEN v.val ELSE "", IF v.kind = "ret" THEN "" ELSE v.val)
SafeEv(src, dst, safe) ==
    Ev("is_safe_operation", src, dst, safe.val[1], "", safe.val[2])
OsEv(call, src, dst, r) == Ev(call, src, dst, r.err = "", r.node, r.err)
Out(calls, f, result) == [calls |-> calls, fs |-> f, result |-> result]

\* file_operations.py:59-62, 78-81, 97-100, 131-134  the except clauses of an
\* operation, e being the exception raised in its try block
FileOperationManager_except(name, e) ==
    IF e.kind = "SecurityError"
    THEN Exc("PermissionError", "Security error: " \o e.val)
    ELSE Exc("FileOperationError", name \o " failed: " \o e.val)

\* file_operations.py:29-34
FileOperationManager_validate_path(f, path) ==
    Only({ IF v.kind = "raise" THEN Exc("PermissionError", v.val) ELSE v :
           v \in {validate_path(f, path, 0)} })

\* file_operations.py:36-63  copy; f is the filesystem the calls of
\* validate_path and is_safe_operation see, g the filesystem at the call of
\* shutil / os that follows them
FileOperationManager_copy_at(f, g, src0, dst0, overwrite) ==
    LET failed(e) == FileOperationManager_except("Copy", e)
    IN  Only({
        IF s.kind # "ret" THEN Out(<< ValidateEv(src0, s) >>, g, failed(s))
        ELSE Only({
            IF d.kind # "ret"
            THEN Out(<< ValidateEv(src0, s), ValidateEv(dst0, d) >>, g, failed(d))
            ELSE IF ~exists(f, s.val)
            THEN Out(<< ValidateEv(src0, s), ValidateEv(dst0, d) >>, g,
                     failed(Exc("PathNotFoundError", "Source not found: " \o s.val)))
            ELSE IF exists(f, d.val) /\ ~overwrite
            THEN Out(<< ValidateEv(src0, s), ValidateEv(dst0, d) >>, g,
                     failed(Exc("FileOperationError", "Destination exists: " \o d.val)))
            ELSE Only({
                IF ~safe.val[1]
                THEN Out(<< ValidateEv(src0, s), ValidateEv(dst0, d),
                            SafeEv(s.val, d.val, safe) >>, g,
                         failed(Exc("PermissionError", safe.val[2])))
                ELSE Only({
                    IF os.err # ""
                    THEN Out(done, os.fs, failed(Exc("OSError", os.err)))
                    ELSE Out(done, os.fs, Ret(TRUE)) :
                    done \in {<< ValidateEv(src0, s), ValidateEv(dst0, d),
                                 SafeEv(s.val, d.val, safe),
                                 OsEv(IF tree THEN "shutil.copytree" ELSE "shutil.copy2",
                                      s.val, d.val, os) >>} }) :
                safe \in {is_safe_operation(f, s.val, d.val, "copy")},
                tree \in {isdir(g, s.val)},
                os \in {IF isdir(g, s.val)
                        THEN shutil_copytree(g, s.val, d.val, overwrite)
                        ELSE shutil_copy2(g, s.val, d.val)} }) :
            d \in {FileOperationManager_validate_path(f, dst0)} }) :
        s \in {FileOperationManager_validate_path(f, src0)} })

\* The copy operation when no other process changes the filesystem
FileOperationManager_copy(f, src0, dst0, overwrite) ==
    FileOperationManager_copy_at(f, f, src0, dst0, overwrite)

\* file_operations.py:65-81  move; f is the filesystem the calls of
\* validate_path and is_safe_operation see, g the filesystem at the call of
\* shutil / os that follows them
FileOperationManager_move_at(f, g, src0, dst0) ==
    LET failed(e) == FileOperationManager_except("Move", e)
    IN  Only({
        IF s.kind # "ret" THEN Out(<< ValidateEv(src0, s) >>, g, failed(s))
        ELSE Only({
            IF d.kind # "ret"
            THEN Out(<< ValidateEv(src0, s), ValidateEv(dst0, d) >>, g, failed(d))
            ELSE Only({
                IF ~safe.val[1]
                THEN Out(<< ValidateEv(src0, s), ValidateEv(dst0, d),
                            SafeEv(s.val, d.val, safe) >>, g,
                         failed(Exc("PermissionError", safe.val[2])))
                ELSE Only({
                    IF os.err # ""
                    THEN Out(done, os.fs, failed(Exc("OSError", os.err)))
                    ELSE Out(done, os.fs, Ret(TRUE)) :
                    done \in {<< ValidateEv(src0, s), ValidateEv(dst0, d),
                                 SafeEv(s.val, d.val, safe),
                                 OsEv("shutil.move", s.val, d.val, os) >>} }) :
                safe \in {is_safe_operation(f, s.val, d.val, "move")},
                os \in {shutil_move(g, s.val, d.val)} }) :
            d \in {FileOperationManager_validate_path(f, dst0)} }) :
        s \in {FileOperationManager_validate_path(f, src0)} })

\* The move operation when no other process changes the filesystem
FileOperationManager_move(f, src0, dst0) ==
    FileOperationManager_move_at(f, f, src0, dst0)

\* file_operations.py:83-100  rename; f is the filesystem the calls of
\* validate_path and is_safe_operation see, g the filesystem at the call of
\* shutil / os that follows them
FileOperationManager_rename_at(f, g, src0, new_name) ==
    LET failed(e) == FileOperationManager_except("Rename", e)
    IN  Only({
        IF s.kind # "ret" THEN Out(<< ValidateEv(src0, s) >>, g, failed(s))
        ELSE Only({ Only({
            IF d.kind # "ret"
            THEN Out(<< ValidateEv(src0, s), ValidateEv(dst0, d) >>, g, failed(d))
            ELSE Only({
                IF ~safe.val[1]
                THEN Out(<< ValidateEv(src0, s), ValidateEv(dst0, d),
                            SafeEv(s.val, d.val, safe) >>, g,
                         failed(Exc("PermissionError", safe.val[2])))
                ELSE Only({
                    IF os.err # ""
                    THEN Out(done, os.fs, failed(Exc("OSError", os.err)))
                    ELSE Out(done, os.fs, Ret(TRUE)) :
                    done \in {<< ValidateEv(src0, s), ValidateEv(dst0, d),
                                 SafeEv(s.val, d.val, safe),
                                 OsEv("os.rename", s.val, d.val, os) >>} }) :
                safe \in {is_safe_operation(f, s.val, d.val, "move")},
                os \in {os_rename(g, s.val, d.val)} }) :
            d \in {FileOperationManager_validate_path(f, dst0)} }) :
            dst0 \in {join(dirname(s.val), new_name)} }) :
        s \in {FileOperationManager_validate_path(f, src0)} })

\* The rename operation when no other process changes the filesystem
FileOperationManager_rename(f, src0, new_name) ==
    FileOperationManager_rename_at(f, f, src0, new_name)

\* plugin.py:19  config.plugins.advancedfilemanager.trash_path
trash_path == "/media/.trash"

\* int(time.time()) when an item is moved to the trash
timestamp == "1"

\* str.rfind(c) counted from 1; 0 when c does not occur
RFindChr(s, c) ==
    LET found == { j \in 1..Len(s) : CharAt(s, j) = c }
    IN  IF found = {} THEN 0 ELSE CHOOSE j \in found : \A k \in found : j >= k

\* posixpath.splitext
splitext(p) ==
    LET sepIndex == RFindSep(p, Len(p))
        dotIndex == RFindChr(p, ".")
        named == { j \in (sepIndex + 1)..(dotIndex - 1) : CharAt(p, j) # "." }
    IN  IF dotIndex > sepIndex /\ named # {}
        THEN [root |-> SubSeq(p, 1, dotIndex - 1), ext |-> SubSeq(p, dotIndex, Len(p))]
        ELSE [root |-> p, ext |-> ""]

\* str.replace(a, b) for a character a
RECURSIVE Replace(_, _, _)
Replace(s, a, b) ==
    IF s = "" THEN ""
    ELSE (IF CharAt(s, 1) = a THEN b ELSE CharAt(s, 1))
         \o Replace(SubSeq(s, 2, Len(s)), a, b)

\* trash_manager.py:279-287
generate_trash_name(original_name) ==
    LET parts == splitext(original_name)
        base_name == Replace(Replace(parts.root, "/", "_"), "\\", "_")
    IN  base_name \o "_" \o timestamp \o parts.ext

\* trash_manager.py:23-37  TrashManager() creates the trash directory
TrashManager_init(f) ==
    IF exists(f, trash_path) THEN Out(<< >>, f, Ret(PyNone))
    ELSE Only({
        IF made.err # ""
        THEN Out(<< OsEv("os.makedirs", trash_path, "", made) >>, made.fs,
                 Exc("TrashError", "Cannot create trash directory: " \o made.err))
        ELSE Out(<< OsEv("os.makedirs", trash_path, "", made) >>, made.fs,
                 Ret(PyNone)) :
        made \in {os_makedirs(f, trash_path, FALSE)} })

\* trash_manager.py:10-14  the import of the security manager (it is part of
\* the package) succeeded
HAS_SECURITY == TRUE

\* trash_manager.py:61-77 and 289-303  trash after its security validation:
\* the move into the trash directory and the metadata file, gate being the
\* gate calls made before
TrashManager_trash_move(f, path, gate) ==
    Only({ Only({ Only({
        IF moved.err # ""
        THEN Out(done, moved.fs,
                 Exc("TrashError", "Failed to move to trash: " \o moved.err))
        ELSE Only({ Out(Append(done, OsEv("open", info_path, "", info)), info.fs,
                        Ret(trash_item_path)) :
                    info \in {os_write(moved.fs, info_path, path)} }) :
        done \in {Append(gate, OsEv("shutil.move", path, trash_item_path, moved))} }) :
        trash_item_path \in {join(trash_path, trash_name)},
        moved \in {shutil_move(f, path, join(trash_path, trash_name))},
        info_path \in {join(trash_path, trash_name \o ".trashinfo")} }) :
        trash_name \in {generate_trash_name(basename(path))} })

\* trash without its security validation (trash_manager.py:52-59 left out)
TrashManager_trash_ungated(f, path) ==
    IF ~exists(f, path)
    THEN Out(<< >>, f, Exc("TrashError", "Path does not exist: " \o path))
    ELSE TrashManager_trash_move(f, path, << >>)

\* trash_manager.py:39-77
TrashManager_trash(f, path) ==
    IF ~exists(f, path)
    THEN Out(<< >>, f, Exc("TrashError", "Path does not exist: " \o path))
    ELSE IF ~HAS_SECURITY THEN TrashManager_trash_move(f, path, << >>)
    ELSE Only({
        IF v.kind = "raise"
        THEN Out(<< ValidateEv(path, v) >>, f,
                 Exc("TrashError", "Security error: " \o v.val))
        ELSE IF v.kind = "error" THEN Out(<< ValidateEv(path, v) >>, f, v)
        ELSE Only({
            IF ~safe.val[1]
            THEN Out(<< ValidateEv(path, v), SafeEv(path, PyNone, safe) >>, f,
                     Exc("TrashError", "Security check failed: " \o safe.val[2]))
            ELSE TrashManager_trash_move(
                     f, path, << ValidateEv(path, v), SafeEv(path, PyNone, safe) >>) :
            safe \in {is_safe_operation(f, path, PyNone, "delete")} }) :
        v \in {validate_path(f, path, 0)} })

\* file_operations.py:118-119, filemanager.py:87 and 617  TrashManager() and
\* then its trash(path)
TrashManager_call(f, path) ==
    Only({
        IF manager.result.kind # "ret" THEN manager
        ELSE Only({ Out(manager.calls \o trashed.calls, trashed.fs, trashed.result) :
                    trashed \in {TrashManager_trash(manager.fs, path)} }) :
        manager \in {TrashManager_init(f)} })

\* str(n) for n >= 0
RECURSIVE str(_)
str(n) ==
    IF n < 10 THEN CharAt("0123456789", n + 1)
    ELSE str(n \div 10) \o CharAt("0123456789", (n % 10) + 1)

\* trash_manager.py:336  the number of names _generate_unique_name tries
RESTORED_LIMIT == 1000

\* trash_manager.py:331-337  the loop of _generate_unique_name from counter on
RECURSIVE generate_unique_name_loop(_, _, _, _)
generate_unique_name_loop(f, base, ext, counter) ==
    IF ~exists(f, base \o "_restored_" \o str(counter) \o ext)
    THEN Ret(base \o "_restored_" \o str(counter) \o ext)
    ELSE IF counter + 1 > RESTORED_LIMIT
    THEN Exc("TrashError", "Cannot generate unique filename")
    ELSE generate_unique_name_loop(f, base, ext, counter + 1)

\* trash_manager.py:323-337
generate_unique_name(f, path) ==
    IF ~exists(f, path) THEN Ret(path)
    ELSE Only({ generate_unique_name_loop(f, parts.root, parts.ext, 1) :
                parts \in {splitext(path)} })

\* trash_manager.py:305-321  _get_original_path: the original path read from
\* the metadata file, None when the file is missing or cannot be read
get_original_path(f, trash_name) ==
    Only({ IF ~exists(f, info_path) THEN PyNone
           ELSE IF os_read(f, info_path).err # "" THEN PyNone
           ELSE os_read(f, info_path).node :
           info_path \in {join(trash_path, trash_name \o ".trashinfo")} })

\* trash_manager.py:113-130  restore from the try block on, original_path
\* being the place the item goes to and gate the gate calls made before
TrashManager_restore_move(f, trash_name, original_path, gate) ==
    LET failed(e) == Exc("TrashError", "Failed to restore from trash: " \o e)
    IN  Only({
        IF made.err # ""
        THEN Out(Append(gate, OsEv("os.makedirs", dirname(original_path), "", made)),
                 made.fs, failed(made.err))
        ELSE Only({
            IF moved.err # ""
            THEN Out(Append(gate, OsEv("shutil.move", trash_item_path, original_path, moved)),
                     moved.fs, failed(moved.err))
            ELSE IF ~exists(moved.fs, info_path)
            THEN Out(Append(gate, OsEv("shutil.move", trash_item_path, original_path, moved)),
                     moved.fs, Ret(original_path))
            ELSE Only({
                Out(gate \o << OsEv("shutil.move", trash_item_path, original_path, moved),
                               OsEv("os.remove", info_path, "", removed) >>,
                    removed.fs,
                    IF removed.err # "" THEN failed(removed.err)
                    ELSE Ret(original_path)) :
                removed \in {os_remove(moved.fs, info_path)} }) :
            moved \in {shutil_move(made.fs, trash_item_path, original_path)} }) :
        made \in {IF exists(f, dirname(original_path)) THEN Done(f, "")
                  ELSE os_makedirs(f, dirname(original_path), FALSE)},
        trash_item_path \in {join(trash_path, trash_name)},
        info_path \in {join(trash_path, trash_name \o ".trashinfo")} })

\* trash_manager.py:79-130
TrashManager_restore(f, trash_name) ==
    IF ~exists(f, join(trash_path, trash_name))
    THEN Out(<< >>, f, Exc("TrashError", "Item not found in trash: " \o trash_name))
    ELSE Only({
        IF original_path = PyNone \/ original_path = ""
        THEN Out(<< >>, f, Exc("TrashError",
                              "Cannot determine original path for: " \o trash_name))
        ELSE Only({
            IF v.kind = "raise"
            THEN Out(<< ValidateEv(original_path, v) >>, f,
                     Exc("TrashError", "Cannot restore to forbidden location: " \o v.val))
            ELSE IF v.kind = "error" THEN Out(<< ValidateEv(original_path, v) >>, f, v)
            ELSE Only({
                IF unique.kind # "ret"
                THEN Out(<< ValidateEv(original_path, v) >>, f, unique)
                ELSE TrashManager_restore_move(f, trash_name, unique.val,
                                               << ValidateEv(original_path, v) >>) :
                unique \in {generate_unique_name(f, v.val)} }) :
            v \in {IF HAS_SECURITY THEN validate_path(f, original_path, 0)
                   ELSE Ret(original_path)} }) :
        original_path \in {get_original_path(f, trash_name)} })

\* delete with every failure of the trash handled like the ImportError of
\* file_operations.py:120-122: the path is then removed directly
FileOperationManager_delete_fallback(f, path0, use_trash) ==
    LET failed(e) == FileOperationManager_except("Delete", e)
    IN  Only({
        IF p.kind # "ret" THEN Out(<< ValidateEv(path0, p) >>, f, failed(p))
        ELSE Only({
            IF ~safe.val[1]
            THEN Out(<< ValidateEv(path0, p), SafeEv(p.val, PyNone, safe) >>, f,
                     failed(Exc("PermissionError", safe.val[2])))
            ELSE IF use_trash /\ trashed.result.kind = "ret"
            THEN Out(<< ValidateEv(path0, p), SafeEv(p.val, PyNone, safe) >>
                         \o trashed.calls,
                     trashed.fs, trashed.result)
            ELSE Only({
                IF os.err # ""
                THEN Out(done, os.fs, failed(Exc("OSError", os.err)))
                ELSE Out(done, os.fs, Ret(TRUE)) :
                done \in {<< ValidateEv(path0, p), SafeEv(p.val, PyNone, safe) >>
                          \o (IF use_trash THEN trashed.calls ELSE << >>)
                          \o << OsEv(IF isdir(f, p.val) THEN "shutil.rmtree"
                                     ELSE "os.remove", p.val, "", os) >>} }) :
            safe \in {is_safe_operation(f, p.val, PyNone, "delete")},
            trashed \in {TrashManager_call(f, p.val)},
            os \in {IF isdir(f, p.val)
                    THEN shutil_rmtree(IF use_trash THEN TrashManager_call(f, p.val).fs
                                       ELSE f, p.val)
                    ELSE os_remove(IF use_trash THEN TrashManager_call(f, p.val).fs
                                   ELSE f, p.val)} }) :
        p \in {FileOperationManager_validate_path(f, path0)} })

\* file_operations.py:102-134
FileOperationManager_delete(f, path0, use_trash) ==
    LET failed(e) == FileOperationManager_except("Delete", e)
    IN  Only({
        IF p.kind # "ret" THEN Out(<< ValidateEv(path0, p) >>, f, failed(p))
        ELSE Only({
            IF ~safe.val[1]
            THEN Out(<< ValidateEv(path0, p), SafeEv(p.val, PyNone, safe) >>, f,
                     failed(Exc("PermissionError", safe.val[2])))
            ELSE IF use_trash
            THEN Only({
                Out(<< ValidateEv(path0, p), SafeEv(p.val, PyNone, safe) >>
                        \o trashed.calls,
                    trashed.fs,
                    IF trashed.result.kind = "ret" THEN trashed.result
                    ELSE failed(trashed.result)) :
                trashed \in {TrashManager_call(f, p.val)} })
            ELSE Only({
                IF os.err # ""
                THEN Out(done, os.fs, failed(Exc("OSError", os.err)))
                ELSE Out(done, os.fs, Ret(TRUE)) :
                done \in {<< ValidateEv(path0, p), SafeEv(p.val, PyNone, safe),
                             OsEv(IF isdir(f, p.val) THEN "shutil.rmtree"
                                  ELSE "os.remove", p.val, "", os) >>} }) :
            safe \in {is_safe_operation(f, p.val, PyNone, "delete")},
            os \in {IF isdir(f, p.val) THEN shutil_rmtree(f, p.val)
                    ELSE os_remove(f, p.val)} }) :
        p \in {FileOperationManager_validate_path(f, path0)} })

\* helpers.py:86  the characters sanitize_filename replaces
invalid_chars == << "<", ">", ":", "\"", "/", "\\", "|", "?", "*" >>

\* helpers.py:99-103
reserved ==
    { "CON", "PRN", "AUX", "NUL", "COM1", "COM2", "COM3", "COM4", "COM5", "COM6",
      "COM7", "COM8", "COM9", "LPT1", "LPT2", "LPT3", "LPT4", "LPT5", "LPT6",
      "LPT7", "LPT8", "LPT9" }

LowerCase == "abcdefghijklmnopqrstuvwxyz"
UpperCase == "ABCDEFGHIJKLMNOPQRSTUVWXYZ"

\* str.upper
RECURSIVE upper(_)
upper(s) ==
    IF s = "" THEN ""
    ELSE (IF \E i \in 1..Len(LowerCase) : CharAt(LowerCase, i) = CharAt(s, 1)
          THEN CharAt(UpperCase, CHOOSE i \in 1..Len(LowerCase) :
                                    CharAt(LowerCase, i) = CharAt(s, 1))
          ELSE CharAt(s, 1))
         \o upper(SubSeq(s, 2, Len(s)))

\* helpers.py:89-90  the replacement loop, from the i-th invalid character on
RECURSIVE ReplaceInvalid(_, _)
ReplaceInvalid(filename, i) ==
    IF i > Len(invalid_chars) THEN filename
    ELSE ReplaceInvalid(Replace(filename, invalid_chars[i], "_"), i + 1)

\* str.strip(' .')
StripSpaceDot(s) ==
    LET kept == { j \in 1..Len(s) : CharAt(s, j) \notin {" ", "."} }
    IN  IF kept = {} THEN ""
        ELSE SubSeq(s, CHOOSE j \in kept : \A k \in kept : j <= k,
                       CHOOSE j \in kept : \A k \in kept : j >= k)

\* helpers.py:74-120  sanitize_filename; the character standing for '\x00'
\* is the control character of the model
sanitize_filename(filename0) ==
    LET filename == Replace(ReplaceInvalid(filename0, 1), NUL, "")
        name_upper == upper(filename)
        marked == IF name_upper \in reserved
                     \/ ((\E r \in reserved : StartsWith(name_upper, r))
                         /\ ~Contains(name_upper, "."))
                  THEN "_" \o filename ELSE filename
        trimmed == StripSpaceDot(marked)
        named == IF trimmed = "" THEN "unnamed" ELSE trimmed
    IN  IF filename0 = "" THEN "unnamed"
        ELSE IF Len(named) > 255
        THEN SubSeq(splitext(named).root, 1, 255 - Len(splitext(named).ext))
             \o splitext(named).ext
        ELSE named

\* filemanager.py:363-382  createFolderCallback in the directory current_path
createFolderCallback(f, current_path, name) ==
    IF name = "" THEN Out(<< >>, f, Ret(PyNone))
    ELSE Only({ Only({
        IF v.kind # "ret" THEN Out(<< ValidateEv(new_path, v) >>, f, Ret(PyNone))
        ELSE Only({ Out(<< ValidateEv(new_path, v),
                           OsEv("os.makedirs", new_path, "", made) >>, made.fs,
                        Ret(PyNone)) :
                    made \in {os_makedirs(f, new_path, TRUE)} }) :
        v \in {validate_path(f, new_path, 0)} }) :
        new_path \in {join(current_path, sanitize_filename(name))} })

\* video_player.py:437-467  confirm_delete on the file being played
confirm_delete(f, current_file, confirmed) ==
    IF ~confirmed THEN Out(<< >>, f, Ret(PyNone))
    ELSE Only({ Out(<< OsEv("os.remove", current_file, "", os) >>, os.fs, Ret(PyNone)) :
                os \in {os_remove(f, current_file)} })

\* file_operations.py:140-148  the operation batch_operation runs on one of
\* its items; with an operation other than copy, move, delete and rename
\* no branch is taken. kwargs is the overwrite argument given for copy,
\* config_use_trash the configuration value delete reads for use_trash=None.
batch_operation_item(f, item, operation, kwargs, config_use_trash) ==
    IF operation = "copy" THEN FileOperationManager_copy(f, item.src, item.dst, kwargs)
    ELSE IF operation = "move" THEN FileOperationManager_move(f, item.src, item.dst)
    ELSE IF operation = "delete"
    THEN FileOperationManager_delete(f, item.path, config_use_trash)
    ELSE IF operation = "rename"
    THEN FileOperationManager_rename(f, item.src, item.new_name)
    ELSE Out(<< >>, f, Ret(PyNone))

\* file_operations.py:11-19  FileOperationError and its subclasses
FileOperationErrors == { "FileOperationError", "PermissionError", "PathNotFoundError" }

\* file_operations.py:150-152  the result appended for an item
batch_result(item, r) ==
    IF r.kind \in FileOperationErrors
    THEN [item |-> item, success |-> FALSE, error |-> r.val]
    ELSE [item |-> item, success |-> TRUE, error |-> PyNone]

\* file_operations.py:136-154  batch_operation(items, operation, **kwargs):
\* the calls made, the filesystem left and the list returned
RECURSIVE batch_operation(_, _, _, _, _)
batch_operation(f, items, operation, kwargs, config_use_trash) ==
    IF items = << >> THEN Out(<< >>, f, Ret(<< >>))
    ELSE Only({
        IF first.result.kind \notin { "ret" } \cup FileOperationErrors THEN first
        ELSE Only({
        IF rest.result.kind # "ret"
        THEN Out(first.calls \o rest.calls, rest.fs, rest.result)
        ELSE Out(first.calls \o rest.calls, rest.fs,
                 Ret(<< batch_result(items[1], first.result) >> \o rest.result.val)) :
        rest \in {batch_operation(first.fs, Tail(items), operation, kwargs,
                                  config_use_trash)} }) :
        first \in {batch_operation_item(f, items[1], operation, kwargs,
                                        config_use_trash)} })

(***************************************************************************)
(* SecurityManager.sanitize_filename                                       *)
(***************************************************************************)
\* security.py:17
DANGEROUS_CHARS == << "<", ">", ":", "\"", "|", "?", "*", NUL >>

\* The characters c of the model with ord(c) < 32
ControlChars == { "\t", "\n", "\r", "\f", NUL }

\* ''.join(char for char in s if ord(char) >= 32)
RECURSIVE RemoveControl(_)
RemoveControl(s) ==
    IF s = "" THEN ""
    ELSE (IF CharAt(s, 1) \in ControlChars THEN "" ELSE CharAt(s, 1))
         \o RemoveControl(SubSeq(s, 2, Len(s)))

\* security.py:81-82  the replacement loop, from the i-th dangerous
\* character on
RECURSIVE ReplaceDangerous(_, _)
ReplaceDangerous(filename, i) ==
    IF i > Len(DANGEROUS_CHARS) THEN filename
    ELSE ReplaceDangerous(Replace(filename, DANGEROUS_CHARS[i], "_"), i + 1)

\* s.split('.')[0]
BeforeDot(s) ==
    LET dots == { j \in 1..Len(s) : CharAt(s, j) = "." }
    IN  IF dots = {} THEN s
        ELSE SubSeq(s, 1, (CHOOSE j \in dots : \A k \in dots : j <= k) - 1)

\* s.strip('.')
StripDot(s) ==
    LET kept == { j \in 1..Len(s) : CharAt(s, j) # "." }
    IN  IF kept = {} THEN ""
        ELSE SubSeq(s, CHOOSE j \in kept : \A k \in kept : j <= k,
                       CHOOSE j \in kept : \A k \in kept : j >= k)

\* security.py:76-107
SecurityManager_sanitize_filename(filename0) ==
    LET filename == RemoveControl(ReplaceDangerous(filename0, 1))
        marked == IF BeforeDot(upper(filename)) \in reserved
                  THEN "_" \o filename ELSE filename
        limited == IF Len(marked) > 255
                   THEN SubSeq(splitext(marked).root, 1, 255 - Len(splitext(marked).ext))
                        \o splitext(marked).ext
                   ELSE marked
    IN  IF filename0 = "" \/ filename0 = PyNone THEN "unnamed"
        ELSE IF limited = "" \/ StripDot(limited) = "" THEN "unnamed"
        ELSE limited

(***************************************************************************)
(* State                                                                   *)
(*   fs      the filesystem                                                *)
(*   input   the path given to the validate_path call in progress          *)
(*   stack   the active validate_path calls, outermost first: the path and *)
(*           the _depth of each call, and its local variable real_path     *)
(*           once the call has computed it                                 *)
(*   ret     the result of the call that returned or raised last: it is    *)
(*           pending for the enclosing call, or, with the stack empty, is  *)
(*           the result delivered to the caller of the depth-0 call        *)
(*   req     the arguments of the is_safe_operation call made, if any      *)
(*   verdict the (is_safe, reason) pair that call returned                 *)
(*   op      the file operation of the application run last, if any        *)
(*   calls   the gate calls and filesystem calls that operation made       *)
(*   outcome the value it returned or the exception it raised              *)
(*   ops     the number of file operations run                             *)
(*   perm    the check_permissions call made, if any, and its result       *)
(*   pending the file operation in progress whose gate calls are made and   *)
(*           whose filesystem call is not, with the filesystem the gate saw *)
(*   pane    the file manager screen: the active panel, and for each panel *)
(*           its directory, its loaded file list and its selection set;    *)
(*           whether the screen has a trash manager                        *)
(*   search  the search engine: its stop event, its result list, the       *)
(*           worker threads started, and the position of the caller        *)
(*   cache   the cache manager: its limits, its entries, oldest first, the *)
(*           clock, and the text of the persistent cache file              *)
(*   conc    the gate calls of concurrent threads: the class attributes of *)
(*           SecurityManager, which the threads share, and for each thread *)
(*           its call, its active validate_path calls and its result       *)
(***************************************************************************)
VARIABLES fs, input, stack, ret, req, verdict, op, calls, outcome, ops, perm, conc,
          pending, pane, search, cache

vars ==
    << fs, input, stack, ret, req, verdict, op, calls, outcome, ops, perm, conc,
       pending, pane, search, cache >>
varsValidate == << input, stack, ret >>
varsSafe == << req, verdict >>
varsApp == << op, calls, outcome, ops >>
varsOther == << perm, conc >>
varsComp == << pending, pane, search, cache >>
varsEngine == << search, cache >>

NoResult == [kind |-> "none", val |-> ""]
NoInput == "<no call>"
Unset == "<unset>"
NoRequest == [src |-> NoInput, dst |-> NoInput, operation |-> ""]
NoOp == [name |-> "", args |-> << >>]
NoPerm == [path |-> NoInput, operation |-> "", result |-> NoResult]
NoPending == [name |-> "", args |-> << >>, seen |-> << >>]

\* The screen is not open
NoPane ==
    [active |-> "", path |-> << >>, files |-> << >>, selected |-> << >>,
     trash_manager |-> FALSE]

\* No search engine: no stop event, result list or thread
NoSearch == [stop_event |-> FALSE, results |-> << >>, threads |-> << >>, main |-> ""]

\* No cache manager
NoCache ==
    [c |-> [alive |-> FALSE, max_size |-> 0, expire_time |-> 0, cache |-> << >>],
     now |-> 0, file |-> [exists |-> FALSE, entries |-> << >>]]

\* No other component is in use
CompIdle ==
    /\ pending = NoPending
    /\ pane = NoPane
    /\ search = NoSearch
    /\ cache = NoCache

\* The threads that call the gate
Threads == { "t1", "t2" }

\* security.py:9-20  the class attributes of SecurityManager
ClassAttributes ==
    [FORBIDDEN_PATHS |-> FORBIDDEN_PATHS, DANGEROUS_CHARS |-> DANGEROUS_CHARS,
     MAX_SYMLINK_DEPTH |-> MAX_SYMLINK_DEPTH]

Idle == [call |-> NoOp, stack |-> << >>, ret |-> NoResult]
NoThreads == [shared |-> ClassAttributes, th |-> [t \in Threads |-> Idle]]

(***************************************************************************)
(* Filesystem layouts                                                      *)
(***************************************************************************)
\* The longest chain of symbolic links in a layout
MaxChain == 6

\* Entries every layout has: an allowed area /media, the forbidden zone
\* /etc, and /etcetera, whose name starts with the text of a forbidden entry
BaseLayout ==
    ("/" :> Dir(AllModes)) @@ ("/media" :> Dir(AllModes)) @@
    ("/media/f" :> File(AllModes)) @@ ("/media/d" :> Dir(AllModes)) @@
    ("/etc" :> Dir(AllModes)) @@ ("/etc/passwd" :> File(AllModes)) @@
    ("/etcetera" :> Dir(AllModes)) @@ ("/etcetera/file" :> File(AllModes)) @@
    ("/media/s" :> Link("/etc/passwd"))

Digit == << "1", "2", "3", "4", "5", "6", "7", "8", "9" >>

\* The i-th link of a chain, in /media
LinkName(i) == "l" \o Digit[i]
LinkPath(i) == "/media/" \o LinkName(i)

\* Where the last link of a chain may point
ChainEnds ==
    { "/media/f", "f", "/etc/passwd", "../etc/passwd", "/etcetera/file",
      "nofile", "/media/l1", "l1", "l1/../f" }

\* A chain l1 -> l2 -> ... -> ln -> end of n symbolic links in /media, the
\* links to the next link being relative (rel) or absolute
ChainLayout(n, rel, end) ==
    [ p \in {LinkPath(i) : i \in 1..n} |->
        LET i == CHOOSE k \in 1..n : LinkPath(k) = p
        IN  IF i = n THEN Link(end)
            ELSE Link(IF rel THEN LinkName(i + 1) ELSE LinkPath(i + 1)) ]
    @@ BaseLayout

\* Layouts without a chain: /media/usb/movies as directories, /media/usb as
\* a symbolic link into the forbidden zone, and a link that another process
\* removes while it is validated
ExtraLayouts ==
    { ("/media/usb" :> Dir(AllModes)) @@ ("/media/usb/movies" :> Dir(AllModes))
          @@ BaseLayout,
      ("/media/usb" :> Link("/etc")) @@ BaseLayout,
      ("/media/l1" :> RaceLink("f")) @@ BaseLayout,
      ("/media/l1" :> Link("l2")) @@ ("/media/l2" :> RaceLink("f")) @@ BaseLayout }

\* No symbolic link is removed while it is validated
NoRace(f) == \A p \in DOMAIN f : ~f[p].gone

Layouts ==
    { ChainLayout(n, rel, end) : n \in 0..MaxChain, rel \in BOOLEAN, end \in ChainEnds }
    \cup ExtraLayouts

\* The paths validate_path is called on
ValidateInputs ==
    { "/media/l1", "l1", "/media/l2", "/media/f", "/media/s", "/media/l1/../s",
      "/media/l1/x", "/etc/passwd", "/etc", "/etcetera/file",
      "/media/../etcetera/file", "/usr/bin2/tool", "/media/../usr/bin2/tool",
      "/media/usb/movies/../../etc/shadow",
      "/media/usb/movies/../../../etc/shadow",
      "/media/new", "", PyNone, PyInt }

(***************************************************************************)
(* validate_path, one call at a time                                       *)
(***************************************************************************)
Top == stack[Len(stack)]

\* A caller calls validate_path(path) (_depth = 0)
Call(path) ==
    /\ input = NoInput
    /\ input' = path
    /\ stack' = << [path |-> path, depth |-> 0, real_path |-> Unset] >>
    /\ UNCHANGED << fs, ret >>
    /\ UNCHANGED varsSafe
    /\ UNCHANGED varsComp
    /\ UNCHANGED varsApp
    /\ UNCHANGED varsOther

\* security.py:69  the innermost call finds a symbolic link and calls
\* validate_path on its target with _depth + 1
Recurse ==
    /\ stack # << >> /\ ret = NoResult
    /\ LET body == validate_path_body(fs, Top.path, Top.depth)
       IN  /\ body.kind = "call"
           /\ stack' = Append([stack EXCEPT ![Len(stack)].real_path = body.ret],
                               [path |-> body.val, depth |-> Top.depth + 1,
                                real_path |-> Unset])
    /\ UNCHANGED << fs, input, ret >>
    /\ UNCHANGED varsSafe
    /\ UNCHANGED varsComp
    /\ UNCHANGED varsApp
    /\ UNCHANGED varsOther

\* The innermost call returns or raises without a recursive call
Finish ==
    /\ stack # << >> /\ ret = NoResult
    /\ LET body == validate_path_body(fs, Top.path, Top.depth)
       IN  /\ body.kind # "call"
           /\ ret' = body
    /\ stack' = SubSeq(stack, 1, Len(stack) - 1)
    /\ UNCHANGED << fs, input >>
    /\ UNCHANGED varsSafe
    /\ UNCHANGED varsComp
    /\ UNCHANGED varsApp
    /\ UNCHANGED varsOther

\* security.py:70-73  a recursive call came back: the enclosing call returns
\* its real path or raises
Unwind ==
    /\ stack # << >> /\ ret # NoResult
    /\ ret' = validate_path_after(Top.real_path, ret)
    /\ stack' = SubSeq(stack, 1, Len(stack) - 1)
    /\ UNCHANGED << fs, input >>
    /\ UNCHANGED varsSafe
    /\ UNCHANGED varsComp
    /\ UNCHANGED varsApp
    /\ UNCHANGED varsOther

InitValidate ==
    /\ fs \in Layouts
    /\ input = NoInput
    /\ stack = << >>
    /\ ret = NoResult
    /\ req = NoRequest
    /\ verdict = NoResult
    /\ op = NoOp
    /\ calls = << >>
    /\ outcome = NoResult
    /\ ops = 0
    /\ perm = NoPerm
    /\ conc = NoThreads
    /\ CompIdle

NextValidate ==
    \/ \E path \in ValidateInputs : Call(path)
    \/ Recurse
    \/ Finish
    \/ Unwind

SpecValidate == InitValidate /\ [][NextValidate]_vars

\* The depth-0 call has delivered its result
Delivered == input # NoInput /\ stack = << >> /\ ret # NoResult

(***************************************************************************)
(* is_safe_operation, one call                                             *)
(***************************************************************************)
\* The base layout with the access modes of /media/f, /media/d and /media
PermLayout(fmode, dmode, mmode) ==
    ("/media/f" :> File(fmode)) @@ ("/media/d" :> Dir(dmode)) @@
    ("/media" :> Dir(mmode)) @@ BaseLayout

\* Layouts for is_safe_operation: every permission granted, one permission
\* revoked, a symbolic link l1 to itself, a chain of two links to /media/f,
\* and the links that another process removes while they are validated
SafeLayouts ==
    { PermLayout(AllModes, AllModes, AllModes),
      PermLayout({"w", "x"}, AllModes, AllModes),
      PermLayout({"r", "x"}, AllModes, AllModes),
      PermLayout(AllModes, {"r", "x"}, AllModes),
      PermLayout(AllModes, AllModes, {"r", "x"}),
      ChainLayout(1, TRUE, "l1"),
      ChainLayout(2, FALSE, "/media/f") }
    \cup { l \in ExtraLayouts : ~NoRace(l) }

SafeSources ==
    { "/media/f", "/media/l1", "/media/l1/../s", "/media/nofile", "/etc/passwd",
      "", PyNone, PyInt }

SafeDestinations ==
    { PyNone, "", "/media/d/new", "/media/f", "/etc/passwd", "/etc/new",
      "/media/nodir/x", "/media/l1/../s", PyInt }

SafeOperations == { "copy", "move", "delete", "chmod" }

\* A caller calls is_safe_operation(src, dst, operation)
Ask(src, dst, operation) ==
    /\ req = NoRequest
    /\ req' = [src |-> src, dst |-> dst, operation |-> operation]
    /\ verdict' = is_safe_operation(fs, src, dst, operation)
    /\ UNCHANGED fs
    /\ UNCHANGED varsComp
    /\ UNCHANGED varsValidate
    /\ UNCHANGED varsApp
    /\ UNCHANGED varsOther

InitSafe ==
    /\ fs \in SafeLayouts
    /\ input = NoInput
    /\ stack = << >>
    /\ ret = NoResult
    /\ req = NoRequest
    /\ verdict = NoResult
    /\ op = NoOp
    /\ calls = << >>
    /\ outcome = NoResult
    /\ ops = 0
    /\ perm = NoPerm
    /\ conc = NoThreads
    /\ CompIdle

NextSafe ==
    \E src \in SafeSources, dst \in SafeDestinations, operation \in SafeOperations :
        Ask(src, dst, operation)

SpecSafe == InitSafe /\ [][NextSafe]_vars

\* The is_safe_operation call has returned or raised
Answered == req # NoRequest

(***************************************************************************)
(* check_permissions, one call                                             *)
(***************************************************************************)
\* Layouts for check_permissions: those of is_safe_operation without a
\* failing readlink, and a chain of MAX_SYMLINK_DEPTH + 1 links to /media/f
PermLayouts ==
    { l \in SafeLayouts : NoRace(l) }
    \cup { ChainLayout(MAX_SYMLINK_DEPTH + 1, TRUE, "f") }

PermPaths ==
    { "/media/f", "/media/d", "/media/l1", "/media/new", "/media/d/new",
      "/media/nodir/x", "/etc/passwd", "/etc", "/etc/new", "/media/s",
      "/media/../etc/passwd", "/media/l1/../s", "", PyNone }

PermOperations == { "read", "write", "execute", "delete", "chmod" }

\* A caller calls check_permissions(path, operation)
Check(path, operation) ==
    /\ perm = NoPerm
    /\ perm' = [path |-> path, operation |-> operation,
                result |-> check_permissions(fs, path, operation)]
    /\ UNCHANGED << fs, conc >>
    /\ UNCHANGED varsValidate
    /\ UNCHANGED varsSafe
    /\ UNCHANGED varsComp
    /\ UNCHANGED varsApp

InitPerm ==
    /\ fs \in PermLayouts
    /\ input = NoInput
    /\ stack = << >>
    /\ ret = NoResult
    /\ req = NoRequest
    /\ verdict = NoResult
    /\ op = NoOp
    /\ calls = << >>
    /\ outcome = NoResult
    /\ ops = 0
    /\ perm = NoPerm
    /\ conc = NoThreads
    /\ CompIdle

NextPerm == \E path \in PermPaths, operation \in PermOperations : Check(path, operation)

SpecPerm == InitPerm /\ [][NextPerm]_vars

\* The check_permissions call has returned or raised
Checked == perm # NoPerm

(***************************************************************************)
(* Gate calls of concurrent threads                                        *)
(*                                                                         *)
(* Each thread makes one gate call. A validate_path call runs frame by     *)
(* frame, the frames of a thread being its own; the steps of the threads   *)
(* interleave. The filesystem does not change.                             *)
(***************************************************************************)
\* security.py:22-200  what a step of a gate call leaves in the attributes
\* the threads share: no method assigns to an attribute of the class or of
\* self
SharedAfter_hops(shared) == [shared EXCEPT !.MAX_SYMLINK_DEPTH = @ - 1]

SharedAfter(shared) == shared

\* security.py:37-69  validate_path up to its recursive call, reading
\* self.MAX_SYMLINK_DEPTH when the call is made
validate_path_body_shared(shared, f, path, depth) ==
    IF depth > shared.MAX_SYMLINK_DEPTH
    THEN Raise("Symlink resolution depth exceeded - possible circular reference")
    ELSE validate_path_checks(f, path)

\* The result of the gate call c when no other call runs
Alone(f, c) ==
    CASE c.name = "validate_path" -> validate_path(f, c.args[1], 0)
      [] c.name = "check_permissions" -> check_permissions(f, c.args[1], c.args[2])
      [] c.name = "is_safe_operation" ->
             is_safe_operation(f, c.args[1], c.args[2], c.args[3])
      [] c.name = "sanitize_filename" ->
             Ret(SecurityManager_sanitize_filename(c.args[1]))

ThreadLayouts ==
    { ChainLayout(MAX_SYMLINK_DEPTH, TRUE, "f"),
      ChainLayout(MAX_SYMLINK_DEPTH + 1, TRUE, "f"),
      ChainLayout(2, TRUE, "l1") }

ThreadPaths == { "/media/l1", "/media/f", "/etc/passwd" }

\* The gate calls that are not followed frame by frame
ThreadGateCalls ==
    { [name |-> "check_permissions", args |-> << "/media/f", "read" >>],
      [name |-> "is_safe_operation", args |-> << "/media/l1", PyNone, "delete" >>],
      [name |-> "sanitize_filename", args |-> << "con.a<b" >>] }

ThreadTop(t) == conc.th[t].stack[Len(conc.th[t].stack)]

\* The thread t makes the step that leaves it in the state next
ThreadStep(t, next) ==
    /\ conc' = [shared |-> SharedAfter(conc.shared),
                th |-> [conc.th EXCEPT ![t] = next]]
    /\ UNCHANGED << fs, perm >>
    /\ UNCHANGED varsValidate
    /\ UNCHANGED varsSafe
    /\ UNCHANGED varsComp
    /\ UNCHANGED varsApp

\* The thread t calls validate_path(path) (_depth = 0)
ThreadCall(t, path) ==
    /\ conc.th[t] = Idle
    /\ ThreadStep(t, [call |-> [name |-> "validate_path", args |-> << path >>],
                       stack |-> << [path |-> path, depth |-> 0, real_path |-> Unset] >>,
                       ret |-> NoResult])

\* security.py:69  the innermost call of t finds a symbolic link and calls
\* validate_path on its target with _depth + 1
ThreadRecurse(t) ==
    /\ conc.th[t].stack # << >> /\ conc.th[t].ret = NoResult
    /\ \E body \in {validate_path_body_shared(conc.shared, fs, ThreadTop(t).path,
                                               ThreadTop(t).depth)} :
          /\ body.kind = "call"
          /\ ThreadStep(t, [conc.th[t] EXCEPT
                 !.stack = Append([@ EXCEPT ![Len(@)].real_path = body.ret],
                                  [path |-> body.val, depth |-> ThreadTop(t).depth + 1,
                                   real_path |-> Unset])])

\* The innermost call of t returns or raises without a recursive call
ThreadFinish(t) ==
    /\ conc.th[t].stack # << >> /\ conc.th[t].ret = NoResult
    /\ \E body \in {validate_path_body_shared(conc.shared, fs, ThreadTop(t).path,
                                               ThreadTop(t).depth)} :
          /\ body.kind # "call"
          /\ ThreadStep(t, [conc.th[t] EXCEPT
                 !.stack = SubSeq(@, 1, Len(@) - 1), !.ret = body])

\* security.py:70-73  a recursive call of t came back
ThreadUnwind(t) ==
    /\ conc.th[t].stack # << >> /\ conc.th[t].ret # NoResult
    /\ ThreadStep(t, [conc.th[t] EXCEPT
           !.stack = SubSeq(@, 1, Len(@) - 1),
           !.ret = validate_path_after(ThreadTop(t).real_path, conc.th[t].ret)])

\* The thread t makes the gate call c and receives its result
ThreadGate(t, c) ==
    /\ conc.th[t] = Idle
    /\ ThreadStep(t, [call |-> c, stack |-> << >>, ret |-> Alone(fs, c)])

InitThreads ==
    /\ fs \in ThreadLayouts
    /\ input = NoInput
    /\ stack = << >>
    /\ ret = NoResult
    /\ req = NoRequest
    /\ verdict = NoResult
    /\ op = NoOp
    /\ calls = << >>
    /\ outcome = NoResult
    /\ ops = 0
    /\ perm = NoPerm
    /\ conc = NoThreads
    /\ CompIdle

NextThreads ==
    \E t \in Threads :
        \/ \E path \in ThreadPaths : ThreadCall(t, path)
        \/ ThreadRecurse(t)
        \/ ThreadFinish(t)
        \/ ThreadUnwind(t)
        \/ \E c \in ThreadGateCalls : ThreadGate(t, c)

SpecThreads == InitThreads /\ [][NextThreads]_vars

\* The gate call of the thread t has returned or raised
ThreadDone(t) ==
    conc.th[t].call # NoOp /\ conc.th[t].stack = << >> /\ conc.th[t].ret # NoResult

(***************************************************************************)
(* The file operations of the application, one after another               *)
(***************************************************************************)
\* The number of file operations run
MaxOps == 2

\* Layouts for the file operations: /media/usb/movies as directories, the
\* same with the trash directory present and a read-only file in /media/usb,
\* and a symbolic link l1 to itself
\* (without /media/usb)
AppLayouts ==
    { ("/media/usb" :> Dir(AllModes)) @@ ("/media/usb/movies" :> Dir(AllModes))
          @@ BaseLayout,
      ("/media/.trash" :> Dir(AllModes)) @@ ("/media/usb" :> Dir(AllModes))
          @@ ("/media/usb/movies" :> Dir(AllModes))
          @@ ("/media/usb/ro" :> File({"r"})) @@ BaseLayout,
      ChainLayout(1, TRUE, "l1") }

CopySources == { "/media/f", "/media/usb" }
CopyDestinations == { "/media/new", "/etc/new" }
MoveDestinations == { "/media/d", "/etc/new" }
RenameSources == { "/media/f" }
NewNames == { "g", "d", "../../etc/x" }
DeletePaths == { "/media/f", "/media/usb", "/media/l1/../s" }
FolderParents == { "/media" }
FolderNames == { "", "new", "a/b", "con" }
TrashPaths == { "/media/f", "/etc/passwd", "/media/usb/ro" }
PlayedFiles == { "/media/f", "/etc/passwd" }

\* The operation name(args) runs to its end: out is what it did
Run(name, args, out) ==
    /\ op' = [name |-> name, args |-> args]
    /\ calls' = out.calls
    /\ fs' = out.fs
    /\ outcome' = out.result
    /\ ops' = ops + 1
    /\ UNCHANGED varsValidate
    /\ UNCHANGED varsSafe
    /\ UNCHANGED varsComp
    /\ UNCHANGED varsOther

Copy(src, dst, overwrite) ==
    /\ ops < MaxOps
    /\ \E out \in {FileOperationManager_copy(fs, src, dst, overwrite)} :
           Run("copy", << src, dst, overwrite >>, out)

Move(src, dst) ==
    /\ ops < MaxOps
    /\ \E out \in {FileOperationManager_move(fs, src, dst)} :
           Run("move", << src, dst >>, out)

Rename(src, new_name) ==
    /\ ops < MaxOps
    /\ \E out \in {FileOperationManager_rename(fs, src, new_name)} :
           Run("rename", << src, new_name >>, out)

Delete(path, use_trash) ==
    /\ ops < MaxOps
    /\ \E out \in {FileOperationManager_delete(fs, path, use_trash)} :
           Run("delete", << path, use_trash >>, out)

Trash(path) ==
    /\ ops < MaxOps
    /\ \E out \in {TrashManager_call(fs, path)} : Run("trash", << path >>, out)

CreateFolder(current_path, name) ==
    /\ ops < MaxOps
    /\ \E out \in {createFolderCallback(fs, current_path, name)} :
           Run("createFolder", << current_path, name >>, out)

ConfirmDelete(current_file, confirmed) ==
    /\ ops < MaxOps
    /\ \E out \in {confirm_delete(fs, current_file, confirmed)} :
           Run("confirm_delete", << current_file, confirmed >>, out)

InitApp ==
    /\ fs \in AppLayouts
    /\ input = NoInput
    /\ stack = << >>
    /\ ret = NoResult
    /\ req = NoRequest
    /\ verdict = NoResult
    /\ op = NoOp
    /\ calls = << >>
    /\ outcome = NoResult
    /\ ops = 0
    /\ perm = NoPerm
    /\ conc = NoThreads
    /\ CompIdle

NextApp ==
    \/ \E src \in CopySources, dst \in CopyDestinations, overwrite \in BOOLEAN :
           Copy(src, dst, overwrite)
    \/ \E src \in CopySources, dst \in MoveDestinations : Move(src, dst)
    \/ \E src \in RenameSources, new_name \in NewNames : Rename(src, new_name)
    \/ \E path \in DeletePaths, use_trash \in BOOLEAN : Delete(path, use_trash)
    \/ \E path \in TrashPaths : Trash(path)
    \/ \E current_path \in FolderParents, name \in FolderNames :
           CreateFolder(current_path, name)
    \/ \E current_file \in PlayedFiles, confirmed \in BOOLEAN :
           ConfirmDelete(current_file, confirmed)

SpecApp == InitApp /\ [][NextApp]_vars

(***************************************************************************)
(* The file operations applied to symbolic links                           *)
(***************************************************************************)
\* Layouts with symbolic links to allowed entries: l1 to the file /media/f
\* by an absolute and by a relative target, and ld to the directory /media/d
\* next to a chain of two links to /media/f
LinkLayouts ==
    { ChainLayout(1, FALSE, "/media/f"),
      ChainLayout(1, FALSE, "f"),
      ("/media/ld" :> Link("/media/d")) @@ ChainLayout(2, TRUE, "f") }

LinkSources == { "/media/l1", "/media/ld", "/media/f" }
LinkDestinations == { "/media/d", "/media/new" }
LinkNames == { "g", "l1" }

InitLink ==
    /\ fs \in LinkLayouts
    /\ input = NoInput
    /\ stack = << >>
    /\ ret = NoResult
    /\ req = NoRequest
    /\ verdict = NoResult
    /\ op = NoOp
    /\ calls = << >>
    /\ outcome = NoResult
    /\ ops = 0
    /\ perm = NoPerm
    /\ conc = NoThreads
    /\ CompIdle

NextLink ==
    \/ \E src \in LinkSources, dst \in LinkDestinations : Move(src, dst)
    \/ \E src \in LinkSources, new_name \in LinkNames : Rename(src, new_name)
    \/ \E path \in LinkSources, use_trash \in BOOLEAN : Delete(path, use_trash)

SpecLink == InitLink /\ [][NextLink]_vars

(***************************************************************************)
(* The file operations while another process changes the filesystem        *)
(*                                                                         *)
(* An operation begins: its gate calls see the filesystem of that moment.  *)
(* Another process may then change the filesystem, and the operation ends: *)
(* its filesystem call acts on the filesystem as it is then.               *)
(***************************************************************************)
\* Layouts: the base layout, and the same with the file /media/d/new present
RaceLayouts ==
    { BaseLayout,
      ("/media/d/new" :> File(AllModes)) @@ BaseLayout }

RaceSources == { "/media/f" }
RaceDestinations == { "/media/d/new", "/media/new" }
RaceNames == { "g", "d" }

\* What the other process does: it replaces the directory /media/d by a
\* symbolic link to /etc, or it removes the file /media/f
Changes == { "swap", "remove" }

Changed(f, change) ==
    IF change = "swap" THEN ("/media/d" :> Link("/etc")) @@ Without(f, "/media/d")
    ELSE Without(f, "/media/f")

\* copy, move or rename is called and makes its gate calls
Begin(name, args) ==
    /\ ops < MaxOps
    /\ pending = NoPending
    /\ pending' = [name |-> name, args |-> args, seen |-> fs]
    /\ UNCHANGED fs
    /\ UNCHANGED varsValidate
    /\ UNCHANGED varsSafe
    /\ UNCHANGED varsApp
    /\ UNCHANGED varsOther
    /\ UNCHANGED pane
    /\ UNCHANGED varsEngine

\* Another process changes the filesystem after the gate calls of the
\* operation in progress
Interfere(change) ==
    /\ pending # NoPending
    /\ pending.seen = fs
    /\ Changed(fs, change) # fs
    /\ fs' = Changed(fs, change)
    /\ UNCHANGED pending
    /\ UNCHANGED varsValidate
    /\ UNCHANGED varsSafe
    /\ UNCHANGED varsApp
    /\ UNCHANGED varsOther
    /\ UNCHANGED pane
    /\ UNCHANGED varsEngine

\* The result of the operation in progress p, its gate calls having seen
\* p.seen and its filesystem call acting on g
Ended(p, g) ==
    CASE p.name = "copy" ->
             FileOperationManager_copy_at(p.seen, g, p.args[1], p.args[2], p.args[3])
      [] p.name = "move" ->
             FileOperationManager_move_at(p.seen, g, p.args[1], p.args[2])
      [] p.name = "rename" ->
             FileOperationManager_rename_at(p.seen, g, p.args[1], p.args[2])

\* The operation in progress makes its filesystem call and ends
End ==
    /\ pending # NoPending
    /\ \E out \in {Ended(pending, fs)} :
           /\ op' = [name |-> pending.name, args |-> pending.args]
           /\ calls' = out.calls
           /\ fs' = out.fs
           /\ outcome' = out.result
           /\ ops' = ops + 1
    /\ pending' = NoPending
    /\ UNCHANGED varsValidate
    /\ UNCHANGED varsSafe
    /\ UNCHANGED varsOther
    /\ UNCHANGED pane
    /\ UNCHANGED varsEngine

InitRace ==
    /\ fs \in RaceLayouts
    /\ input = NoInput
    /\ stack = << >>
    /\ ret = NoResult
    /\ req = NoRequest
    /\ verdict = NoResult
    /\ op = NoOp
    /\ calls = << >>
    /\ outcome = NoResult
    /\ ops = 0
    /\ perm = NoPerm
    /\ conc = NoThreads
    /\ CompIdle

NextRace ==
    \/ \E src \in RaceSources, dst \in RaceDestinations, overwrite \in BOOLEAN :
           Begin("copy", << src, dst, overwrite >>)
    \/ \E src \in RaceSources, dst \in RaceDestinations :
           Begin("move", << src, dst >>)
    \/ \E src \in RaceSources, new_name \in RaceNames :
           Begin("rename", << src, new_name >>)
    \/ \E change \in Changes : Interfere(change)
    \/ End

SpecRace == InitRace /\ [][NextRace]_vars

(***************************************************************************)
(* The dual-pane screen (src/ui/dual_pane.py, src/ui/filemanager.py)       *)
(*                                                                         *)
(* An entry of a file list is a record of its name, its path, and whether  *)
(* it is a directory and the '..' entry. The index of the highlighted      *)
(* row is kept by the list widget and is an input of the handlers.          *)
(***************************************************************************)
Panels == { "left", "right" }

Item(name, path, is_dir, is_parent) ==
    [name |-> name, path |-> path, is_dir |-> is_dir, is_parent |-> is_parent]

\* The characters of lower-case file names, in code point order
Ascii == " -.0123456789_abcdefghijklmnopqrstuvwxyz~"

\* The rank of ord(c) among them
Ord(c) ==
    IF \E i \in 1..Len(Ascii) : CharAt(Ascii, i) = c
    THEN CHOOSE i \in 1..Len(Ascii) : CharAt(Ascii, i) = c
    ELSE 0

\* a < b for str
RECURSIVE StrLess(_, _)
StrLess(a, b) ==
    IF b = "" THEN FALSE
    ELSE IF a = "" THEN TRUE
    ELSE IF CharAt(a, 1) = CharAt(b, 1)
    THEN StrLess(SubSeq(a, 2, Len(a)), SubSeq(b, 2, Len(b)))
    ELSE Ord(CharAt(a, 1)) < Ord(CharAt(b, 1))

\* str.lower
RECURSIVE lower(_)
lower(s) ==
    IF s = "" THEN ""
    ELSE (IF \E i \in 1..Len(UpperCase) : CharAt(UpperCase, i) = CharAt(s, 1)
          THEN CharAt(LowerCase, CHOOSE i \in 1..Len(UpperCase) :
                                    CharAt(UpperCase, i) = CharAt(s, 1))
          ELSE CharAt(s, 1))
         \o lower(SubSeq(s, 2, Len(s)))

\* dual_pane.py:129-130  list.sort(key=lambda x: x['name'].lower()) of the
\* items in S (names equal in lower case keep the order os.listdir gave
\* them: the layouts have no such names)
RECURSIVE SortByName(_)
SortByName(S) ==
    IF S = {} THEN << >>
    ELSE Only({ << first >> \o SortByName(S \ {first}) :
                first \in {CHOOSE x \in S : \A y \in S \ {x} :
                               ~StrLess(lower(y.name), lower(x.name))} })

\* os.listdir: the names of the entries of the directory path
listdir(f, path) ==
    Only({ IF st.err # "" THEN [err |-> st.err, names |-> {}]
           ELSE IF f[st.node].kind # "dir" THEN [err |-> "ENOTDIR", names |-> {}]
           ELSE IF "r" \notin f[st.node].mode THEN [err |-> "EACCES", names |-> {}]
           ELSE [err |-> "",
                 names |-> { basename(q) : q \in { x \in DOMAIN f :
                                 x # st.node /\ dirname(x) = st.node } }] :
           st \in {stat(f, path)} })

\* dual_pane.py:78-153  load_directory(panel, path): the layout after it.
\* An entry whose os.stat fails is left out; when the directory cannot be
\* listed the error is shown and the panel stays as it is.
load_directory(pn, f, panel, path) ==
    Only({
        IF entries.err # "" THEN pn
        ELSE Only({
            [pn EXCEPT
               !.files[panel] =
                   (IF dirname(path) # path
                    THEN << Item("..", dirname(path), TRUE, TRUE) >> ELSE << >>)
                   \o SortByName({ x \in items : x.is_dir })
                   \o SortByName({ x \in items : ~x.is_dir }),
               !.path[panel] = path] :
            items \in {{ Item(entry, join(path, entry), isdir(f, join(path, entry)), FALSE) :
                         entry \in { e \in entries.names : exists(f, join(path, e)) } }} }) :
        entries \in {listdir(f, path)} })

\* dual_pane.py:65-76  refresh(panel), panel being 'left', 'right' or None
refresh(pn, f, panel) ==
    Only({ IF panel \in {PyNone, "right"}
           THEN load_directory(left, f, "right", left.path["right"])
           ELSE left :
           left \in {IF panel \in {PyNone, "left"}
                     THEN load_directory(pn, f, "left", pn.path["left"])
                     ELSE pn} })

\* dual_pane.py:205-208
switch_panel(pn) ==
    [pn EXCEPT !.active = IF pn.active = "left" THEN "right" ELSE "left"]

\* dual_pane.py:219-221 and 223-225
get_active_path(pn) == pn.path[pn.active]
get_active_files(pn) == pn.files[pn.active]
\* dual_pane.py:227-229
get_active_selections(pn) == pn.selected[pn.active]

\* dual_pane.py:231-249  index is the list widget's getSelectionIndex()
toggle_selection(pn, index) ==
    IF index < 0 \/ index >= Len(get_active_files(pn)) THEN pn
    ELSE Only({ IF path \in get_active_selections(pn)
                THEN [pn EXCEPT !.selected[pn.active] = @ \ {path}]
                ELSE [pn EXCEPT !.selected[pn.active] = @ \cup {path}] :
                path \in {get_active_files(pn)[index + 1].path} })

\* The paths of the entries of the active panel other than '..'
AllPaths(pn) ==
    { get_active_files(pn)[i].path :
      i \in { j \in 1..Len(get_active_files(pn)) : ~get_active_files(pn)[j].is_parent } }

\* dual_pane.py:251-261
select_all(pn) == [pn EXCEPT !.selected[pn.active] = @ \cup AllPaths(pn)]

\* dual_pane.py:263-268
deselect_all(pn) == [pn EXCEPT !.selected[pn.active] = {}]

\* dual_pane.py:270-283
invert_selection(pn) == [pn EXCEPT !.selected[pn.active] = AllPaths(pn) \ @]

\* filemanager.py:670-682  the record of the highlighted row, if any
HasCurrentItem(pn, index) == 0 <= index /\ index < Len(get_active_files(pn))
getCurrentItem(pn, index) == get_active_files(pn)[index + 1]

\* filemanager.py:163-179  okPressed on a directory or on '..' (on a file it
\* opens the file and the layout stays as it is)
okPressed(pn, f, index) ==
    IF ~HasCurrentItem(pn, index) THEN pn
    ELSE IF getCurrentItem(pn, index).is_dir \/ getCurrentItem(pn, index).is_parent
    THEN load_directory(pn, f, pn.active, getCurrentItem(pn, index).path)
    ELSE pn

\* filemanager.py:467-472, 531-536, 582-587  the items a handler acts on: the
\* selection set or, when it is empty, the highlighted entry unless it is '..'
Selected(pn, index) ==
    IF get_active_selections(pn) # {} THEN get_active_selections(pn)
    ELSE IF HasCurrentItem(pn, index) /\ ~getCurrentItem(pn, index).is_parent
    THEN { getCurrentItem(pn, index).path }
    ELSE {}

\* The orders in which a loop can take the members of the set S
Orders(S) ==
    { o \in [1..Cardinality(S) -> S] : \A i, j \in DOMAIN o : o[i] = o[j] => i = j }

\* What a handler has done so far: the calls made, the filesystem, the
\* number of items done and the (item, reason) pairs of the items failed
Progress(cs, f, success, failed) ==
    [calls |-> cs, fs |-> f, success |-> success, failed |-> failed]

\* An item of a loop after the call c the handler made for it
AfterCall(acc, gate, src, c) ==
    Progress(acc.calls \o gate \o c.calls, c.fs,
             IF c.result.kind = "ret" THEN acc.success + 1 ELSE acc.success,
             IF c.result.kind = "ret" THEN acc.failed
             ELSE Append(acc.failed, << src, c.result.val >>))

\* An item of a loop that the handler's own security check refuses
Refused(acc, gate, src, safe) ==
    Progress(acc.calls \o gate, acc.fs, acc.success,
             Append(acc.failed, << src, safe.val[2] >>))

\* filemanager.py:493-506  one item of doCopy
doCopy_item(acc, src, dst_path) ==
    Only({ IF ~safe.val[1]
           THEN Refused(acc, << SafeEv(src, dst_path, safe) >>, src, safe)
           ELSE Only({ AfterCall(acc, << SafeEv(src, dst_path, safe) >>, src, c) :
                       c \in {FileOperationManager_copy(
                                  acc.fs, src, join(dst_path, basename(src)), FALSE)} }) :
           safe \in {is_safe_operation(acc.fs, src, dst_path, "copy")} })

\* filemanager.py:554-567  one item of doMove
doMove_item(acc, src, dst_path) ==
    Only({ IF ~safe.val[1]
           THEN Refused(acc, << SafeEv(src, dst_path, safe) >>, src, safe)
           ELSE Only({ AfterCall(acc, << SafeEv(src, dst_path, safe) >>, src, c) :
                       c \in {FileOperationManager_move(
                                  acc.fs, src, join(dst_path, basename(src)))} }) :
           safe \in {is_safe_operation(acc.fs, src, dst_path, "move")} })

\* filemanager.py:608-623  one item of doDelete
doDelete_item(acc, path, trash_manager) ==
    Only({ IF ~safe.val[1]
           THEN Refused(acc, << SafeEv(path, PyNone, safe) >>, path, safe)
           ELSE Only({ AfterCall(acc, << SafeEv(path, PyNone, safe) >>, path, c) :
                       c \in {IF trash_manager THEN TrashManager_trash(acc.fs, path)
                              ELSE FileOperationManager_delete(acc.fs, path, FALSE)} }) :
           safe \in {is_safe_operation(acc.fs, path, PyNone, "delete")} })

\* The loop of a handler over items from the i-th on
RECURSIVE ItemLoop(_, _, _, _, _, _)
ItemLoop(name, acc0, items, i, dst_path, trash_manager) ==
    IF i > Len(items) THEN acc0
    ELSE Only({ ItemLoop(name, acc, items, i + 1, dst_path, trash_manager) :
                acc \in {IF name = "doCopy" THEN doCopy_item(acc0, items[i], dst_path)
                         ELSE IF name = "doMove" THEN doMove_item(acc0, items[i], dst_path)
                         ELSE doDelete_item(acc0, items[i], trash_manager)} })

\* What a handler of the screen did: the calls it made, the filesystem and
\* the layout it leaves, and its result
UiOut(cs, f, pn, result) ==
    [calls |-> cs, fs |-> f, pane |-> pn, result |-> result]

\* filemanager.py:488-521  doCopy(items, src_path, dst_path): the loop, then
\* the refresh of both panels; the selection is kept
doCopy(pn, f, items, dst_path) ==
    Only({ UiOut(done.calls, done.fs, refresh(pn, done.fs, PyNone),
                 Ret(<< done.success, done.failed >>)) :
           done \in {ItemLoop("doCopy", Progress(<< >>, f, 0, << >>), items, 1,
                              dst_path, FALSE)} })

\* filemanager.py:549-578  doMove: the loop, deselect_all, refresh
doMove(pn, f, items, dst_path) ==
    Only({ UiOut(done.calls, done.fs, refresh(deselect_all(pn), done.fs, PyNone),
                 Ret(<< done.success, done.failed >>)) :
           done \in {ItemLoop("doMove", Progress(<< >>, f, 0, << >>), items, 1,
                              dst_path, FALSE)} })

\* filemanager.py:603-634  doDelete: the loop, deselect_all, refresh; with no
\* item failed, line 634 then reads the name e, which is not bound
doDelete(pn, f, items) ==
    Only({ UiOut(done.calls, done.fs, refresh(deselect_all(pn), done.fs, PyNone),
                 IF done.failed # << >> THEN Ret(<< done.success, done.failed >>)
                 ELSE Exc("NameError", "name 'e' is not defined")) :
           done \in {ItemLoop("doDelete", Progress(<< >>, f, 0, << >>), items, 1,
                              "", pn.trash_manager)} })

\* The directory of the panel opposite to the active one
OppositePath(pn) == IF pn.active = "left" THEN pn.path["right"] ELSE pn.path["left"]

(***************************************************************************)
(* The screen in use: the user's actions, one after another. The user      *)
(* confirms every question the screen asks.                                *)
(***************************************************************************)
\* Layouts for the screen: /media with a file and a directory, which holds
\* a file
UiLayouts ==
    { ("/" :> Dir(AllModes)) @@ ("/media" :> Dir(AllModes))
          @@ ("/media/d" :> Dir(AllModes)) @@ ("/media/f" :> File(AllModes))
          @@ ("/media/d/a" :> File(AllModes)) @@ ("/etc" :> Dir(AllModes)) }

\* The directory the left panel opens with (config lastpath)
LastPaths == { "/media", "/media/d" }

\* The rows the list widget may have highlighted
Indices == 0..2

\* The items a handler may act on, in the order its loop takes them
ItemOrders(pn) ==
    UNION { Orders(Selected(pn, index)) : index \in Indices } \ { << >> }

\* The handler name(args) runs to its end: out is what it did
RunUi(name, args, out) ==
    /\ op' = [name |-> name, args |-> args]
    /\ calls' = out.calls
    /\ fs' = out.fs
    /\ pane' = out.pane
    /\ outcome' = out.result
    /\ ops' = ops + 1
    /\ UNCHANGED pending
    /\ UNCHANGED varsEngine
    /\ UNCHANGED varsValidate
    /\ UNCHANGED varsSafe
    /\ UNCHANGED varsOther

\* A handler that changes the layout only
RunPane(name, args, pn) == RunUi(name, args, UiOut(<< >>, fs, pn, Ret(PyNone)))

\* filemanager.py:728-729
SelectAll == ops < MaxOps /\ RunPane("selectAll", << >>, select_all(pane))
\* filemanager.py:732-733
DeselectAll == ops < MaxOps /\ RunPane("deselectAll", << >>, deselect_all(pane))
\* filemanager.py:736-737
InvertSelection ==
    ops < MaxOps /\ RunPane("invertSelection", << >>, invert_selection(pane))
\* filemanager.py:724-725
SwitchPanel == ops < MaxOps /\ RunPane("switchPanel", << >>, switch_panel(pane))
\* dual_pane.py:231
ToggleSelection(index) ==
    ops < MaxOps /\ RunPane("toggle_selection", << index >>, toggle_selection(pane, index))
\* filemanager.py:163
OkPressed(index) ==
    ops < MaxOps /\ RunPane("okPressed", << index >>, okPressed(pane, fs, index))
\* filemanager.py:740-741
RefreshCurrent ==
    ops < MaxOps /\ RunPane("refreshCurrent", << >>, refresh(pane, fs, pane.active))

\* filemanager.py:459-486
CopySelected ==
    /\ ops < MaxOps
    /\ \E items \in ItemOrders(pane) :
           \E out \in {doCopy(pane, fs, items, OppositePath(pane))} :
               RunUi("copySelected", << items >>, out)

\* filemanager.py:523-547
MoveSelected ==
    /\ ops < MaxOps
    /\ \E items \in ItemOrders(pane) :
           \E out \in {doMove(pane, fs, items, OppositePath(pane))} :
               RunUi("moveSelected", << items >>, out)

\* filemanager.py:580-601
DeleteSelected ==
    /\ ops < MaxOps
    /\ \E items \in ItemOrders(pane) :
           \E out \in {doDelete(pane, fs, items)} :
               RunUi("deleteSelected", << items >>, out)

\* filemanager.py:73-160  AdvancedFileManager(session) with the configuration
\* use_trash and lastpath, on the filesystem f, and layoutFinished: the
\* filesystem and the layout of the screen shown
Opened(f, use_trash, lastpath) ==
    Only({ [fs |-> made.fs,
            pane |-> refresh([active |-> "left",
                              path |-> [p \in Panels |->
                                           IF p = "left" THEN lastpath ELSE "/media"],
                              files |-> [p \in Panels |-> << >>],
                              selected |-> [p \in Panels |-> {}],
                              trash_manager |-> use_trash /\ made.result.kind = "ret"],
                             made.fs, PyNone)] :
           made \in {IF use_trash THEN TrashManager_init(f)
                     ELSE Out(<< >>, f, Ret(PyNone))} })

InitUi ==
    /\ \E f \in UiLayouts, use_trash \in BOOLEAN, lastpath \in LastPaths :
           /\ fs = Opened(f, use_trash, lastpath).fs
           /\ pane = Opened(f, use_trash, lastpath).pane
    /\ input = NoInput
    /\ stack = << >>
    /\ ret = NoResult
    /\ req = NoRequest
    /\ verdict = NoResult
    /\ op = NoOp
    /\ calls = << >>
    /\ outcome = NoResult
    /\ ops = 0
    /\ perm = NoPerm
    /\ conc = NoThreads
    /\ pending = NoPending
    /\ search = NoSearch
    /\ cache = NoCache

NextUi ==
    \/ SelectAll
    \/ DeselectAll
    \/ InvertSelection
    \/ SwitchPanel
    \/ RefreshCurrent
    \/ \E index \in Indices : ToggleSelection(index)
    \/ \E index \in Indices : OkPressed(index)
    \/ CopySelected
    \/ MoveSelected
    \/ DeleteSelected

SpecUi == InitUi /\ [][NextUi]_vars

(***************************************************************************)
(* delete with and without the trash                                       *)
(***************************************************************************)
\* Layouts for delete: /media/usb/movies as directories without a trash
\* directory, with one, with /media read-only (the trash directory cannot
\* be created), with a read-only trash directory, with a file where the
\* trash directory should be, and with /media/usb read-only (its entry
\* movies can be copied and cannot be renamed or removed)
TrashLayouts ==
    { ("/media/usb" :> Dir(AllModes)) @@ ("/media/usb/movies" :> Dir(AllModes))
          @@ BaseLayout,
      ("/media/.trash" :> Dir(AllModes)) @@ ("/media/usb" :> Dir(AllModes))
          @@ ("/media/usb/movies" :> Dir(AllModes)) @@ BaseLayout,
      ("/media" :> Dir({"r", "x"})) @@ ("/media/usb" :> Dir(AllModes))
          @@ ("/media/usb/movies" :> Dir(AllModes)) @@ BaseLayout,
      ("/media/.trash" :> Dir({"r", "x"})) @@ ("/media/usb" :> Dir(AllModes))
          @@ ("/media/usb/movies" :> Dir(AllModes)) @@ BaseLayout,
      ("/media/.trash" :> File(AllModes)) @@ ("/media/usb" :> Dir(AllModes))
          @@ ("/media/usb/movies" :> Dir(AllModes)) @@ BaseLayout,
      ("/media/.trash" :> Dir(AllModes)) @@ ("/media/usb" :> Dir({"r", "x"}))
          @@ ("/media/usb/movies" :> Dir(AllModes)) @@ BaseLayout }

\* The paths delete is called on
TrashedPaths ==
    { "/media/f", "/media/usb", "/media/usb/movies", "/media", "/media/.trash",
      "/media/s", "/etc/passwd" }

InitTrash ==
    /\ fs \in TrashLayouts
    /\ input = NoInput
    /\ stack = << >>
    /\ ret = NoResult
    /\ req = NoRequest
    /\ verdict = NoResult
    /\ op = NoOp
    /\ calls = << >>
    /\ outcome = NoResult
    /\ ops = 0
    /\ perm = NoPerm
    /\ conc = NoThreads
    /\ CompIdle

NextTrash ==
    \E path \in TrashedPaths, use_trash \in BOOLEAN : Delete(path, use_trash)

SpecTrash == InitTrash /\ [][NextTrash]_vars

(***************************************************************************)
(* batch_operation, one call                                              *)
(***************************************************************************)
\* The items of a batch: dictionaries with the keys the operations read
BatchItem(src, dst, new_name) ==
    [src |-> src, dst |-> dst, path |-> src, new_name |-> new_name]

BatchItems ==
    { BatchItem("/media/f", "/media/new", "g"),
      BatchItem("/media/d", "/media/d2", "d3"),
      BatchItem("/etc/passwd", "/media/p", "q") }

\* The longest list of items given
MaxItems == 2

\* The lists of items given
BatchLists == UNION { [1..n -> BatchItems] : n \in 0..MaxItems }

\* The values of the operation argument
BatchOperations == { "copy", "move", "delete", "rename", "chmod", PyNone }

Batch(items, operation, kwargs, config_use_trash) ==
    /\ ops = 0
    /\ \E out \in {batch_operation(fs, items, operation, kwargs, config_use_trash)} :
           Run("batch_operation", << items, operation, kwargs, config_use_trash >>, out)

InitBatch ==
    /\ fs = BaseLayout
    /\ input = NoInput
    /\ stack = << >>
    /\ ret = NoResult
    /\ req = NoRequest
    /\ verdict = NoResult
    /\ op = NoOp
    /\ calls = << >>
    /\ outcome = NoResult
    /\ ops = 0
    /\ perm = NoPerm
    /\ conc = NoThreads
    /\ CompIdle

NextBatch ==
    \E items \in BatchLists, operation \in BatchOperations, kwargs \in BOOLEAN,
       config_use_trash \in BOOLEAN :
        Batch(items, operation, kwargs, config_use_trash)

SpecBatch == InitBatch /\ [][NextBatch]_vars

(***************************************************************************)
(* The screen copying and moving between its panels                        *)
(***************************************************************************)
\* A layout for the screen with the given modes of /, /media and /media/d
HandLayout(rmode, mmode, dmode) ==
    ("/" :> Dir(rmode)) @@ ("/media" :> Dir(mmode)) @@ ("/media/d" :> Dir(dmode))
        @@ ("/media/f" :> File(AllModes)) @@ ("/media/d/a" :> File(AllModes))
        @@ ("/etc" :> Dir(AllModes))

\* Layouts for copying and moving: every permission granted, and /, /media
\* or /media/d read-only
HandLayouts ==
    { HandLayout(AllModes, AllModes, AllModes),
      HandLayout({"r", "x"}, AllModes, AllModes),
      HandLayout(AllModes, {"r", "x"}, AllModes),
      HandLayout(AllModes, AllModes, {"r", "x"}) }

InitHandOn ==
    /\ \E f \in HandLayouts, lastpath \in LastPaths :
           /\ fs = Opened(f, FALSE, lastpath).fs
           /\ pane = Opened(f, FALSE, lastpath).pane
    /\ input = NoInput
    /\ stack = << >>
    /\ ret = NoResult
    /\ req = NoRequest
    /\ verdict = NoResult
    /\ op = NoOp
    /\ calls = << >>
    /\ outcome = NoResult
    /\ ops = 0
    /\ perm = NoPerm
    /\ conc = NoThreads
    /\ pending = NoPending
    /\ search = NoSearch
    /\ cache = NoCache

NextHandOn ==
    \/ SwitchPanel
    \/ SelectAll
    \/ \E index \in Indices : OkPressed(index)
    \/ CopySelected
    \/ MoveSelected

SpecHandOn == InitHandOn /\ [][NextHandOn]_vars

(***************************************************************************)
(* The trash: items moved into it and restored from it                     *)
(***************************************************************************)
\* Layouts for the trash: a file a.txt and a file f_restored_1 in /media,
\* and the same with a symbolic link l1 to f, relative or absolute
RestoreLayouts ==
    { ("/media/a.txt" :> File(AllModes)) @@ ("/media/f_restored_1" :> File(AllModes))
          @@ l : l \in { BaseLayout, ChainLayout(1, FALSE, "f"),
                         ChainLayout(1, FALSE, "/media/f") } }

\* The paths moved to the trash and created again
RestoredPaths == { "/media/f", "/media/a.txt", "/media/d", "/media/l1" }

\* The names these paths get in the trash
RestoredNames == { generate_trash_name(basename(path)) : path \in RestoredPaths }

\* trash_manager.py:79  restore(trash_name)
Restore(trash_name) ==
    /\ ops < MaxOps
    /\ \E out \in {TrashManager_restore(fs, trash_name)} :
           Run("restore", << trash_name >>, out)

\* Another process creates a file at path
Recreate(path) ==
    /\ lstat(fs, path).err # ""
    /\ exists(fs, dirname(path))
    /\ fs' = (path :> File(AllModes)) @@ fs
    /\ UNCHANGED varsValidate
    /\ UNCHANGED varsSafe
    /\ UNCHANGED varsApp
    /\ UNCHANGED varsComp
    /\ UNCHANGED varsOther

InitRestore ==
    /\ fs \in RestoreLayouts
    /\ input = NoInput
    /\ stack = << >>
    /\ ret = NoResult
    /\ req = NoRequest
    /\ verdict = NoResult
    /\ op = NoOp
    /\ calls = << >>
    /\ outcome = NoResult
    /\ ops = 0
    /\ perm = NoPerm
    /\ conc = NoThreads
    /\ CompIdle

NextRestore ==
    \/ \E path \in RestoredPaths : Trash(path)
    \/ \E path \in RestoredPaths : Recreate(path)
    \/ \E trash_name \in RestoredNames : Restore(trash_name)

SpecRestore == InitRestore /\ [][NextRestore]_vars

(***************************************************************************)
(* SearchEngine (src/api/search_engine.py)                                 *)
(*                                                                         *)
(* search starts a worker thread; the workers and the caller run           *)
(* concurrently. A worker takes the files of its walk one by one: it tests *)
(* the stop event and matches the file name, and then appends the path to  *)
(* self.results. The options are the default ones.                         *)
(***************************************************************************)
\* fnmatch.fnmatchcase for patterns of literal characters, * and ?
RECURSIVE fnmatch(_, _)
fnmatch(name, pat) ==
    IF pat = "" THEN name = ""
    ELSE IF CharAt(pat, 1) = "*"
    THEN \E i \in 0..Len(name) :
             fnmatch(SubSeq(name, i + 1, Len(name)), SubSeq(pat, 2, Len(pat)))
    ELSE /\ name # ""
         /\ CharAt(pat, 1) \in { "?", CharAt(name, 1) }
         /\ fnmatch(SubSeq(name, 2, Len(name)), SubSeq(pat, 2, Len(pat)))

\* search_engine.py:86-99  _match_file with use_regex False, the flag
\* re.IGNORECASE and no file types
match_file(filename, pattern) == fnmatch(lower(filename), lower(pattern))

\* search_engine.py:101-125  _match_filters without size and date filters:
\* os.stat of the file succeeds
match_filters(f, filepath) == stat(f, filepath).err = ""

\* search_engine.py:52-60  the files os.walk(path) yields: the entries other
\* than directories of path and of the directories under it, those whose
\* name starts with '.' left out (showhidden is False)
Walked(f, path) ==
    { q \in DOMAIN f :
        /\ q # path /\ Under(path, q) /\ isdir(f, path)
        /\ ~isdir(f, q)
        /\ \A d \in DOMAIN f :
               (d # path /\ Under(path, d) /\ d # q /\ Under(d, q))
                   => ~StartsWith(basename(d), ".") }

\* A worker thread: the arguments of _search_worker, the files its walk has
\* still to take, and its position
Worker(path, pattern, todo) ==
    [path |-> path, pattern |-> pattern, todo |-> todo, at |-> "test"]

\* The thread self.search_thread has ended (or there is none)
Joined(s) == s.threads = << >> \/ s.threads[Len(s.threads)].at = "done"

\* The engine did name(args)
Engine(name, args, s) ==
    /\ op' = [name |-> name, args |-> args]
    /\ calls' = << >>
    /\ outcome' = Ret(PyNone)
    /\ ops' = ops + 1
    /\ search' = s
    /\ UNCHANGED << fs, pending, pane, cache >>
    /\ UNCHANGED varsValidate
    /\ UNCHANGED varsSafe
    /\ UNCHANGED varsOther

\* A thread took a step
EngineStep(s) ==
    /\ search' = s
    /\ UNCHANGED << fs, pending, pane, cache >>
    /\ UNCHANGED varsValidate
    /\ UNCHANGED varsSafe
    /\ UNCHANGED varsApp
    /\ UNCHANGED varsOther

\* search_engine.py:16-39  search(path, pattern); todo is the order in which
\* the walk of the new worker yields its files
Search(path, pattern, todo) ==
    /\ ops < MaxOps
    /\ search.main = "idle"
    /\ todo \in Orders(Walked(fs, path))
    /\ Engine("search", << path, pattern >>,
              [search EXCEPT !.stop_event = FALSE, !.results = << >>,
                             !.threads = Append(@, Worker(path, pattern, todo))])

\* search_engine.py:127-129  stop() sets the event and begins to join
StopSearch ==
    /\ ops < MaxOps
    /\ search.main = "idle"
    /\ Engine("stop", << >>,
              [search EXCEPT !.stop_event = TRUE,
                             !.main = IF search.threads = << >> THEN "idle"
                                      ELSE "join"])

\* search_engine.py:130-131  join returns: the thread has ended
JoinReturn ==
    /\ search.main = "join"
    /\ Joined(search)
    /\ EngineStep([search EXCEPT !.main = "idle"])

\* search_engine.py:131  join(timeout=1) returns after a second with the
\* thread still running
JoinTimeout ==
    /\ search.main = "join"
    /\ ~Joined(search)
    /\ EngineStep([search EXCEPT !.main = "idle"])

\* search_engine.py:51-53, 60-65  a worker at its next file: it ends when
\* the stop event is set or no file is left, and skips a file that does
\* not match
WorkerTest(t) ==
    /\ t \in DOMAIN search.threads
    /\ search.threads[t].at = "test"
    /\ EngineStep(
           IF search.stop_event \/ search.threads[t].todo = << >>
           THEN [search EXCEPT !.threads[t].at = "done"]
           ELSE IF /\ match_file(basename(search.threads[t].todo[1]),
                                 search.threads[t].pattern)
                   /\ match_filters(fs, search.threads[t].todo[1])
           THEN [search EXCEPT !.threads[t].at = "append"]
           ELSE [search EXCEPT !.threads[t].todo = Tail(@)])

\* search_engine.py:66  self.results.append(full_path)
WorkerAppend(t) ==
    /\ t \in DOMAIN search.threads
    /\ search.threads[t].at = "append"
    /\ EngineStep([search EXCEPT !.results = Append(@, search.threads[t].todo[1]),
                                 !.threads[t].todo = Tail(@),
                                 !.threads[t].at = "test"])

\* Layout for the searches: two files in /media and one in /media/d
SearchLayout ==
    ("/" :> Dir(AllModes)) @@ ("/media" :> Dir(AllModes))
        @@ ("/media/a.txt" :> File(AllModes)) @@ ("/media/b.mp4" :> File(AllModes))

SearchPaths == { "/media" }
SearchPatterns == { "*.txt", "*.mp4" }
\* The orders a walk of the layout can yield its files in
SearchOrders == UNION { Orders(Walked(SearchLayout, path)) : path \in SearchPaths }

\* search_engine.py:10-14  SearchEngine()
InitSearch ==
    /\ fs = SearchLayout
    /\ search = [stop_event |-> FALSE, results |-> << >>, threads |-> << >>,
                 main |-> "idle"]
    /\ input = NoInput
    /\ stack = << >>
    /\ ret = NoResult
    /\ req = NoRequest
    /\ verdict = NoResult
    /\ op = NoOp
    /\ calls = << >>
    /\ outcome = NoResult
    /\ ops = 0
    /\ perm = NoPerm
    /\ conc = NoThreads
    /\ pending = NoPending
    /\ pane = NoPane
    /\ cache = NoCache

NextSearch ==
    \/ \E path \in SearchPaths, pattern \in SearchPatterns, todo \in SearchOrders :
           Search(path, pattern, todo)
    \/ StopSearch
    \/ JoinReturn
    \/ JoinTimeout
    \/ \E t \in 1..MaxOps : WorkerTest(t)
    \/ \E t \in 1..MaxOps : WorkerAppend(t)

SpecSearch == InitSearch /\ [][NextSearch]_vars

(***************************************************************************)
(* CacheManager (src/api/cache_manager.py)                                 *)
(*                                                                         *)
(* An instance c: max_size, expire_time and the OrderedDict self.cache as  *)
(* the sequence of its entries, oldest first. The file /tmp/afm_cache.json *)
(* and the clock belong to the machine and outlive the instance.           *)
(***************************************************************************)
\* cache_manager.py:34-36  _get_key: the md5 digest of the path, one key
\* for each path
get_key(path) == "md5(" \o path \o ")"

CacheEntry(key, path, now, data) ==
    [key |-> key, path |-> path, timestamp |-> now, data |-> data]

\* The positions of key in the entries d (at most one)
KeyAt(d, key) == { i \in DOMAIN d : d[i].key = key }

\* del d[key]
DelKey(d, key) == SelectSeq(d, LAMBDA e : e.key # key)

\* OrderedDict.move_to_end(key)
move_to_end(d, key) ==
    DelKey(d, key) \o SelectSeq(d, LAMBDA e : e.key = key)

\* d[key] = entry: a key already there keeps its place
SetKey(d, entry) ==
    IF KeyAt(d, entry.key) = {} THEN Append(d, entry)
    ELSE [i \in DOMAIN d |-> IF d[i].key = entry.key THEN entry ELSE d[i]]

\* The result of a method: the instance after it and what it returned or
\* raised
CacheOut(c, result) == [c |-> c, result |-> result]

\* cache_manager.py:145-157  load_cache: the entries of the file, all of
\* them, in the order of the file
CacheManager_load_cache(c, file) ==
    IF file.exists THEN [c EXCEPT !.cache = file.entries] ELSE c

\* cache_manager.py:15-32  CacheManager(max_size, expire_time)
CacheManager_init(max_size, expire_time, file) ==
    CacheManager_load_cache(
        [alive |-> TRUE, max_size |-> max_size, expire_time |-> expire_time,
         cache |-> << >>], file)

\* cache_manager.py:76-77  while len(self.cache) >= self.max_size:
\* self.cache.popitem(last=False); popitem of an empty dictionary raises
\* KeyError
RECURSIVE popitems(_, _)
popitems(d, max_size) ==
    IF Len(d) >= max_size
    THEN IF d = << >> THEN Exc("KeyError", "dictionary is empty")
         ELSE popitems(Tail(d), max_size)
    ELSE Ret(d)

\* cache_manager.py:64-84  set(path, data) at the time now; when popitem
\* raises, the entries have all been popped
CacheManager_set(c, path, data, now) ==
    Only({ IF d.kind # "ret" THEN CacheOut([c EXCEPT !.cache = << >>], d)
           ELSE CacheOut([c EXCEPT !.cache =
                              move_to_end(SetKey(d.val,
                                  CacheEntry(get_key(path), path, now, data)),
                                  get_key(path))],
                         Ret(PyNone)) :
           d \in { popitems(c.cache, c.max_size) } })

\* cache_manager.py:38-62  get(path) at the time now
CacheManager_get(c, path, now) ==
    Only({ IF at = {} THEN CacheOut(c, Ret(PyNone))
           ELSE IF now - c.cache[Only(at)].timestamp < c.expire_time
           THEN CacheOut([c EXCEPT !.cache = move_to_end(@, get_key(path))],
                         Ret(c.cache[Only(at)].data))
           ELSE CacheOut([c EXCEPT !.cache = DelKey(@, get_key(path))],
                         Ret(PyNone)) :
           at \in { KeyAt(c.cache, get_key(path)) } })

\* cache_manager.py:86-92  invalidate(path)
CacheManager_invalidate(c, path) ==
    CacheOut([c EXCEPT !.cache = DelKey(@, get_key(path))], Ret(PyNone))

\* cache_manager.py:94-103  invalidate_directory(directory)
CacheManager_invalidate_directory(c, directory) ==
    CacheOut([c EXCEPT !.cache =
                  SelectSeq(@, LAMBDA e : ~StartsWith(e.path, directory))],
             Ret(PyNone))

\* cache_manager.py:105-110  clear()
CacheManager_clear(c) == CacheOut([c EXCEPT !.cache = << >>], Ret(PyNone))

\* cache_manager.py:127-143  save_cache() at the time now: the file it
\* writes
CacheManager_save_cache(c, now) ==
    [exists |-> TRUE,
     entries |-> SelectSeq(c.cache,
                           LAMBDA e : now - e.timestamp < c.expire_time)]
(***************************************************************************)
(* The cache in use                                                        *)
(***************************************************************************)
CachePaths == { "/media/a", "/media/b" }
CacheDirectories == { "/media" }
CacheData == { "meta" }
MaxSizes == 0..2
ExpireTimes == { 1, 300 }
Clock == 0..1

\* The file at the start: none, or the one an earlier run of the plugin
\* with the default max_size saved
CacheFiles ==
    { [exists |-> FALSE, entries |-> << >>],
      CacheManager_save_cache(
          CacheManager_set(
              CacheManager_set(
                  CacheManager_init(1000, 300, [exists |-> FALSE, entries |-> << >>]),
                  "/media/a", "meta", 0).c,
              "/media/b", "meta", 0).c, 0) }

\* The instance did name(args); MaxOps calls follow the construction
CacheDid(name, args, out) ==
    /\ op' = [name |-> name, args |-> args]
    /\ calls' = << >>
    /\ outcome' = out.result
    /\ ops' = ops + 1
    /\ cache' = [cache EXCEPT !.c = out.c]
    /\ UNCHANGED << fs, pending, pane, search >>
    /\ UNCHANGED varsValidate
    /\ UNCHANGED varsSafe
    /\ UNCHANGED varsOther

\* The machine took a step
CacheStep(c) ==
    /\ cache' = c
    /\ UNCHANGED << fs, pending, pane, search >>
    /\ UNCHANGED varsValidate
    /\ UNCHANGED varsSafe
    /\ UNCHANGED varsApp
    /\ UNCHANGED varsOther

\* cache_manager.py:15-32  CacheManager(max_size, expire_time)
Construct(max_size, expire_time) ==
    /\ ~cache.c.alive
    /\ CacheDid("CacheManager", << str(max_size), str(expire_time) >>,
                CacheOut(CacheManager_init(max_size, expire_time, cache.file),
                         Ret(PyNone)))

CacheSet(path, data) ==
    /\ ops <= MaxOps
    /\ cache.c.alive
    /\ CacheDid("set", << path, data >>,
                CacheManager_set(cache.c, path, data, cache.now))

CacheGet(path) ==
    /\ ops <= MaxOps
    /\ cache.c.alive
    /\ CacheDid("get", << path >>, CacheManager_get(cache.c, path, cache.now))

Invalidate(path) ==
    /\ ops <= MaxOps
    /\ cache.c.alive
    /\ CacheDid("invalidate", << path >>, CacheManager_invalidate(cache.c, path))

InvalidateDirectory(directory) ==
    /\ ops <= MaxOps
    /\ cache.c.alive
    /\ CacheDid("invalidate_directory", << directory >>,
                CacheManager_invalidate_directory(cache.c, directory))

CacheClear ==
    /\ ops <= MaxOps
    /\ cache.c.alive
    /\ CacheDid("clear", << >>, CacheManager_clear(cache.c))

\* cache_manager.py:127-143  save_cache()
SaveCache ==
    /\ ops <= MaxOps
    /\ cache.c.alive
    /\ op' = [name |-> "save_cache", args |-> << >>]
    /\ calls' = << >>
    /\ outcome' = Ret(PyNone)
    /\ ops' = ops + 1
    /\ cache' = [cache EXCEPT !.file = CacheManager_save_cache(cache.c, cache.now)]
    /\ UNCHANGED << fs, pending, pane, search >>
    /\ UNCHANGED varsValidate
    /\ UNCHANGED varsSafe
    /\ UNCHANGED varsOther

\* time.time() moves on
Tick ==
    /\ cache.now + 1 \in Clock
    /\ CacheStep([cache EXCEPT !.now = @ + 1])

InitCache ==
    /\ cache \in { [c |-> NoCache.c, now |-> 0, file |-> file] :
                   file \in CacheFiles }
    /\ fs = BaseLayout
    /\ input = NoInput
    /\ stack = << >>
    /\ ret = NoResult
    /\ req = NoRequest
    /\ verdict = NoResult
    /\ op = NoOp
    /\ calls = << >>
    /\ outcome = NoResult
    /\ ops = 0
    /\ perm = NoPerm
    /\ conc = NoThreads
    /\ pending = NoPending
    /\ pane = NoPane
    /\ search = NoSearch

NextCache ==
    \/ \E max_size \in MaxSizes, expire_time \in ExpireTimes :
           Construct(max_size, expire_time)
    \/ \E path \in CachePaths, data \in CacheData : CacheSet(path, data)
    \/ \E path \in CachePaths : CacheGet(path)
    \/ \E path \in CachePaths : Invalidate(path)
    \/ \E directory \in CacheDirectories : InvalidateDirectory(directory)
    \/ CacheClear
    \/ SaveCache
    \/ Tick

SpecCache == InitCache /\ [][NextCache]_vars

(***************************************************************************)
(* Notions the properties are stated with                                  *)
(***************************************************************************)
\* p equals an entry of FORBIDDEN_PATHS or lies under one
InForbiddenZone(p) ==
    \E i \in 1..Len(FORBIDDEN_PATHS) :
        \/ p = FORBIDDEN_PATHS[i]
        \/ (Len(p) > Len(FORBIDDEN_PATHS[i])
            /\ SubSeq(p, 1, Len(FORBIDDEN_PATHS[i]) + 1) = FORBIDDEN_PATHS[i] \o "/")

\* The prefixes of a path that end before a separator, and the path itself
TextPrefixes(p) ==
    { SubSeq(p, 1, i - 1) : i \in { j \in 2..Len(p) : CharAt(p, j) = "/" } } \cup {p}

\* No component of the path as written is a symbolic link
NoSymlinkOnPath(f, p) == \A q \in TextPrefixes(p) : ~islink(f, q)

\* The number of symbolic links met from p on, each link's target naming the
\* next one, counted up to k
RECURSIVE ChainLenUpTo(_, _, _)
ChainLenUpTo(f, p, k) ==
    IF k = 0 \/ ~islink(f, p) THEN 0
    ELSE 1 + Only({ ChainLenUpTo(f, t, k - 1) : t \in {link_target(f, p)} })

\* The length of the chain of symbolic links that starts at p; a chain that
\* runs into a cycle counts as MAX_SYMLINK_DEPTH + 2
ChainLen(f, p) == ChainLenUpTo(f, p, MAX_SYMLINK_DEPTH + 2)

\* Following the targets from the link p leads to the link stored at node
\* within k hops
RECURSIVE LeadsTo(_, _, _, _)
LeadsTo(f, p, node, k) ==
    /\ k > 0
    /\ islink(f, p)
    /\ \E t \in {link_target(f, p)} :
          /\ islink(f, t)
          /\ (lstat(f, t).node = node \/ LeadsTo(f, t, node, k - 1))

\* p names a symbolic link that lies on a cycle A -> B -> ... -> A
CycleMember(f, p) ==
    p \notin NonStr /\ islink(f, p)
    /\ \E node \in {lstat(f, p).node} : LeadsTo(f, p, node, Cardinality(DOMAIN f))

DepthExceeded == "Symlink resolution depth exceeded - possible circular reference"
SymlinkViolation == "Symlink points to forbidden location"
TraversalDetected == "Directory traversal attempt detected"
AccessDenied(forbidden) == "Access denied to system path: " \o forbidden

\* The calls of the state machine give the result of the recursive definition
StackAgrees == Delivered => ret = validate_path(fs, input, 0)

C4_RejectsOnlyForbiddenZone ==
    (Delivered /\ ret.kind = "raise"
        /\ (ret.val = TraversalDetected
            \/ \E i \in 1..Len(FORBIDDEN_PATHS) : ret.val = AccessDenied(FORBIDDEN_PATHS[i])))
    => InForbiddenZone(realpath(fs, input))

\* C5 as stated: with no symbolic links on the path,
\* /media/usb/movies/../../etc/shadow resolves to /etc/shadow and is rejected.
C5_TwoDotDotRejected ==
    (Delivered /\ input = "/media/usb/movies/../../etc/shadow"
        /\ NoSymlinkOnPath(fs, input))
    => (realpath(fs, input) = "/etc/shadow" /\ ret.kind = "raise")

\* C5 amended: with no symbolic links on the path, it is the spelling with
\* three '..' segments, /media/usb/movies/../../../etc/shadow, that resolves
\* to /etc/shadow and is rejected (traversal failure); the spelling with two
\* resolves to /media/etc/shadow, outside every forbidden zone, and is
\* returned.
C5_ThreeDotDotRejected ==
    (Delivered /\ NoSymlinkOnPath(fs, input)) =>
        /\ input = "/media/usb/movies/../../../etc/shadow" =>
              (realpath(fs, input) = "/etc/shadow" /\ ret = Raise(TraversalDetected))
        /\ input = "/media/usb/movies/../../etc/shadow" =>
              ret = Ret("/media/etc/shadow")

C5_Witness ==
    /\ Delivered /\ NoSymlinkOnPath(fs, input)
    /\ input = "/media/usb/movies/../../../etc/shadow"
    /\ "/media/usb/movies" \in DOMAIN fs
    /\ ret = Raise(TraversalDetected)

\* C8, the depths: every nested call has _depth one greater than its caller
\* and _depth never exceeds MAX_SYMLINK_DEPTH + 1.
DepthsBounded ==
    /\ \A i \in 1..Len(stack) : stack[i].depth = i - 1
    /\ Len(stack) <= MAX_SYMLINK_DEPTH + 2

\* C8, the outcome: a call on a member of a cycle does not return a path.
CycleRaises ==
    (Delivered /\ CycleMember(fs, input)) => ret.kind # "ret"

\* C8: validate_path called at depth 0 on a member of a symlink cycle
\* terminates, with depths that grow by one per nested call and stay within
\* MAX_SYMLINK_DEPTH + 1, and ends by raising a failure.
C8_CycleTerminates ==
    /\ [](DepthsBounded /\ CycleRaises)
    /\ (input # NoInput /\ CycleMember(fs, input)) ~> Delivered

C8_Witness ==
    /\ Delivered /\ CycleMember(fs, input)
    /\ ChainLen(fs, link_target(fs, input)) > 1
    /\ ret.kind = "raise"

C10_ForbiddenTargetIsSymlinkViolation ==
    (Delivered /\ input \notin NonStr /\ islink(fs, input)
        /\ ~InForbiddenZone(lstat(fs, input).node)
        /\ ChainLen(fs, input) <= MAX_SYMLINK_DEPTH
        /\ exists(fs, input) /\ InForbiddenZone(stat(fs, input).node))
    => ret = Raise(SymlinkViolation)

\* C11: whenever the recursive validation of a symbolic link's target fails,
\* for whatever reason, the enclosing validate_path call raises exactly
\* 'Symlink points to forbidden location'.
C11_NestedFailureRewrapped ==
    [][(stack # << >> /\ ret.kind \in {"raise", "error"})
          => ret' = Raise(SymlinkViolation)]_vars

\* The entry of FORBIDDEN_PATHS that p equals or lies under
MatchedEntry(p) ==
    FORBIDDEN_PATHS[CHOOSE i \in 1..Len(FORBIDDEN_PATHS) :
                        \/ p = FORBIDDEN_PATHS[i]
                        \/ StartsWith(p, FORBIDDEN_PATHS[i] \o "/")]

\* validate_path has delivered its result for an input that is not a
\* symbolic link and whose resolved path lies in a forbidden zone
ForbiddenNonSymlinkDelivered ==
    /\ Delivered /\ input \notin NonStr \cup {""} /\ ~Contains(input, NUL)
    /\ ~islink(fs, input)
    /\ InForbiddenZone(realpath(fs, input))

\* C18 as stated: on a non-symlink input whose resolved path equals a
\* forbidden entry p or lies under it, the failure reason is 'Access denied
\* to system path: p', for every spelling of the input.
C18_AccessDeniedNamesEntry ==
    ForbiddenNonSymlinkDelivered
    => ret = Raise(AccessDenied(MatchedEntry(realpath(fs, input))))

\* C18 amended: on such an input the failure reason is 'Access denied to
\* system path: p' when the input has no '..' segment, and 'Directory
\* traversal attempt detected', which names no entry, when it has one.
C18_ReasonBySpelling ==
    ForbiddenNonSymlinkDelivered
    => ret = Raise(IF InSeq("..", Split(input)) THEN TraversalDetected
                   ELSE AccessDenied(MatchedEntry(realpath(fs, input))))

C18_Witness ==
    /\ ForbiddenNonSymlinkDelivered
    /\ input = "/media/usb/movies/../../../etc/shadow"
    /\ realpath(fs, input) = "/etc/shadow"
    /\ ret = Raise(TraversalDetected)

AllowedChainDelivered ==
    /\ Delivered /\ input \notin NonStr /\ NoRace(fs)
    /\ islink(fs, input)
    /\ ChainLen(fs, input) <= MAX_SYMLINK_DEPTH + 1
    /\ ~InForbiddenZone(realpath(fs, input))

\* C20: a chain of exactly MAX_SYMLINK_DEPTH symbolic links that ends at an
\* allowed entry is accepted and the real path of that entry is returned; the
\* same chain with one more link is rejected.
C20_DepthBoundary ==
    AllowedChainDelivered =>
        /\ ChainLen(fs, input) = MAX_SYMLINK_DEPTH => ret = Ret(realpath(fs, input))
        /\ ChainLen(fs, input) = MAX_SYMLINK_DEPTH + 1 => ret.kind = "raise"

C20_Witness ==
    /\ AllowedChainDelivered
    /\ ChainLen(fs, input) = MAX_SYMLINK_DEPTH
    /\ stat(fs, input).node = "/media/f"
    /\ ret = Ret("/media/f")

(***************************************************************************)
(* Properties of is_safe_operation (checked under SpecSafe)                *)
(***************************************************************************)
\* The resolved path of dst equals a forbidden entry or lies under one,
\* whether resolved by realpath or by the operating system
ForbiddenDestination(f, dst) ==
    \/ InForbiddenZone(realpath(f, dst))
    \/ (exists(f, dst) /\ InForbiddenZone(stat(f, dst).node))

\* C3: for every src, every operation and every non-empty dst whose resolved
\* path equals a forbidden entry or lies under one, is_safe_operation returns
\* a verdict whose first component is False.
C3_ForbiddenDestinationRefused ==
    (Answered /\ req.dst \notin {"", PyNone, PyInt}
        /\ ForbiddenDestination(fs, req.dst))
    => (verdict.kind = "ret" /\ verdict.val[1] = FALSE)

C3_Witness ==
    /\ Answered /\ req.src = "/media/f" /\ req.dst = "/etc/passwd"
    /\ req.operation = "copy"
    /\ access(fs, "/media/f", "r")
    /\ verdict = Ret(<<FALSE, "Invalid destination: " \o AccessDenied("/etc")>>)

\* The verdict the checks of C6 give, each check being the fact it names:
\* the source validates, exists and is readable, the destination (when
\* given) validates, its parent exists and is writable, the destination does
\* not exist inside a forbidden zone, and for 'delete' the source and its
\* parent are writable.
ExpectedVerdict(f, src, dst, operation) ==
    LET s == validate_path(f, src, 0)
        d == validate_path(f, dst, 0)
        given == dst \notin {"", PyNone}
    IN  IF s.kind = "raise" THEN <<FALSE, s.val>>
        ELSE IF ~exists(f, s.val) THEN <<FALSE, "Source does not exist">>
        ELSE IF ~access(f, s.val, "r") THEN <<FALSE, "No read permission on source">>
        ELSE IF given /\ d.kind = "raise"
             THEN <<FALSE, "Invalid destination: " \o d.val>>
        ELSE IF given /\ ~exists(f, dirname(d.val))
             THEN <<FALSE, "Destination directory does not exist">>
        ELSE IF given /\ ~access(f, dirname(d.val), "w")
             THEN <<FALSE, "No write permission on destination directory">>
        ELSE IF given /\ exists(f, d.val) /\ InForbiddenZone(d.val)
             THEN <<FALSE, "Cannot overwrite system file">>
        ELSE IF operation = "delete"
                /\ ~(access(f, dirname(s.val), "w") /\ access(f, s.val, "w"))
             THEN <<FALSE, "No permission to delete">>
        ELSE <<TRUE, "Safe">>

C7_AlwaysVerdict ==
    Answered =>
        /\ verdict.kind = "ret"
        /\ Len(verdict.val) = 2
        /\ verdict.val[1] \in BOOLEAN
        /\ verdict.val[2] \in STRING
        /\ \A t \in {is_safe_operation_try(fs, req.src, req.dst, req.operation)} :
              t.kind = "error" => verdict.val = <<FALSE, "Unexpected error: " \o t.val>>

C7_Witness ==
    /\ Answered /\ ~NoRace(fs)
    /\ is_safe_operation_try(fs, req.src, req.dst, req.operation).kind = "error"
    /\ verdict = Ret(<<FALSE, "Unexpected error: OSError">>)

\* C24: for the same src, dst and filesystem, is_safe_operation gives the
\* verdict of 'copy' for every operation other than 'delete' ('move' and an
\* unknown operation included): the operation matters only through the
\* delete-permission check.
C24_OperationOnlyMattersForDelete ==
    (Answered /\ req.operation # "delete")
    => \A other \in SafeOperations \ {"delete"} :
           verdict = is_safe_operation(fs, req.src, req.dst, other)

\* A move out of a directory that is not writable is cleared: nothing checks
\* that the source entry can be removed from its directory.
C24_Witness ==
    /\ Answered /\ req.operation = "move"
    /\ req.src = "/media/f" /\ req.dst = "/media/d/new"
    /\ ~access(fs, "/media", "w")
    /\ verdict = Ret(<<TRUE, "Safe">>)
    /\ is_safe_operation(fs, req.src, req.dst, "delete")
           = Ret(<<FALSE, "No permission to delete">>)

(***************************************************************************)
(* Properties of check_permissions (checked under SpecPerm)                *)
(***************************************************************************)
\* What the operating system grants for the operation on the entry node:
\* the access bit for read, write and execute, write access to the parent
\* directory and to the entry for delete, nothing for another operation
ExpectedAccess(f, node, operation) ==
    CASE operation = "read" -> "r" \in f[node].mode
      [] operation = "write" -> "w" \in f[node].mode
      [] operation = "execute" -> "x" \in f[node].mode
      [] operation = "delete" -> "w" \in f[dirname(node)].mode /\ "w" \in f[node].mode
      [] OTHER -> FALSE

\* check_permissions was called on a path that exists
CheckedExisting == Checked /\ perm.path \notin NonStr \cup {""} /\ exists(fs, perm.path)

\* C14 as stated: for an existing path outside every forbidden zone,
\* check_permissions equals the access check the operation selects.
C14_EqualsAccessCheck ==
    (CheckedExisting /\ ~InForbiddenZone(stat(fs, perm.path).node))
    => perm.result = Ret(ExpectedAccess(fs, stat(fs, perm.path).node, perm.operation))

\* C14 amended: for an existing path that validate_path accepts,
\* check_permissions equals the access check the operation selects, made on
\* the entry the path leads to; for an existing path that validate_path
\* rejects, be it outside every forbidden zone (a chain of more than
\* MAX_SYMLINK_DEPTH symbolic links), check_permissions returns False.
C14_AcceptedEqualsAccessCheck ==
    CheckedExisting =>
        /\ validate_path(fs, perm.path, 0).kind = "ret" =>
              perm.result =
                  Ret(ExpectedAccess(fs, stat(fs, perm.path).node, perm.operation))
        /\ validate_path(fs, perm.path, 0).kind = "raise" => perm.result = Ret(FALSE)

C14_Witness ==
    /\ CheckedExisting /\ perm.path = "/media/f" /\ perm.operation = "delete"
    /\ "w" \in fs["/media/f"].mode /\ "w" \notin fs["/media"].mode
    /\ perm.result = Ret(FALSE)

\* The directory dir exists and the process may write to it
WritableDir(f, dir) ==
    \E st \in {stat(f, dir)} : st.err = "" /\ "w" \in f[st.node].mode

\* C15 as stated: for a path outside every forbidden zone that does not
\* exist, check_permissions returns False for read and execute, and True for
\* write and delete whenever the parent directory exists and is writable.
C15_MissingUsesParent ==
    (Checked /\ perm.path \notin NonStr \cup {""} /\ ~exists(fs, perm.path)
        /\ ~InForbiddenZone(realpath(fs, perm.path)))
    => /\ perm.operation \in {"read", "execute"} => perm.result = Ret(FALSE)
       /\ (perm.operation \in {"write", "delete"}
              /\ WritableDir(fs, dirname(realpath(fs, perm.path))))
          => perm.result = Ret(TRUE)

\* C15 amended: when the path validate_path returns does not exist,
\* check_permissions returns False for read, execute and any unknown
\* operation, and applies the check of write or delete to the parent
\* directory as the path: write is True exactly when the parent directory
\* exists and is writable, delete exactly when the parent directory and the
\* parent's own parent directory are both writable.
C15_MissingCheckedOnParent ==
    Checked =>
        \A v \in {validate_path(fs, perm.path, 0)} :
            (v.kind = "ret" /\ ~exists(fs, v.val)) =>
                /\ perm.operation \notin {"write", "delete"} => perm.result = Ret(FALSE)
                /\ perm.operation = "write" =>
                      perm.result = Ret(WritableDir(fs, dirname(v.val)))
                /\ perm.operation = "delete" =>
                      perm.result = Ret(WritableDir(fs, dirname(v.val))
                                        /\ WritableDir(fs, dirname(dirname(v.val))))

C15_Witness ==
    /\ Checked /\ perm.path = "/media/d/new" /\ perm.operation = "delete"
    /\ ~exists(fs, perm.path)
    /\ WritableDir(fs, "/media/d") /\ ~WritableDir(fs, "/media")
    /\ perm.result = Ret(FALSE)

\* The resolved form of path, as realpath or as the operating system
\* resolves it, equals a forbidden entry or lies under one
ResolvesIntoForbiddenZone(f, path) ==
    \/ InForbiddenZone(realpath(f, path))
    \/ (exists(f, path) /\ InForbiddenZone(stat(f, path).node))

\* C16: for every operation and every path whose resolved form equals a
\* forbidden entry or lies under one, check_permissions returns False,
\* whatever the access bits, and raises nothing.
C16_ForbiddenNeverPermitted ==
    (Checked /\ perm.path \notin NonStr \cup {""}
        /\ ResolvesIntoForbiddenZone(fs, perm.path))
    => perm.result = Ret(FALSE)

C16_Witness ==
    /\ Checked /\ perm.path = "/media/s" /\ perm.operation = "read"
    /\ stat(fs, perm.path).node = "/etc/passwd"
    /\ access(fs, perm.path, "r")
    /\ perm.result = Ret(FALSE)

(***************************************************************************)
(* Properties of concurrent gate calls (checked under SpecThreads)         *)
(***************************************************************************)
\* C17: no step of a gate call writes FORBIDDEN_PATHS, MAX_SYMLINK_DEPTH or
\* another attribute the threads share, and, the filesystem being fixed,
\* each call interleaved with the calls of other threads has the result it
\* has when it runs alone.
C17_ConcurrentCallsIndependent ==
    /\ conc.shared = ClassAttributes
    /\ \A t \in Threads : ThreadDone(t) => conc.th[t].ret = Alone(fs, conc.th[t].call)

C17_Witness ==
    /\ ThreadDone("t1")
    /\ conc.th["t1"].call = [name |-> "validate_path", args |-> << "/media/l1" >>]
    /\ conc.th["t1"].ret = Ret("/media/f")
    /\ Len(conc.th["t2"].stack) = MAX_SYMLINK_DEPTH + 1
    /\ conc.th["t2"].call = conc.th["t1"].call

(***************************************************************************)
(* Properties of the file operations (checked under SpecApp)               *)
(***************************************************************************)
\* The calls that change the filesystem
Mutating ==
    { "shutil.copy2", "shutil.copytree", "shutil.move", "os.rename", "os.remove",
      "shutil.rmtree", "os.makedirs" }

\* Before its i-th call the operation validated the path the call works on,
\* successfully, and after that is_safe_operation returned True for it
Gated(i) ==
    \E j \in 1..(i - 1), k \in 1..(i - 1) :
        /\ j < k
        /\ calls[j].call = "validate_path" /\ calls[j].ok
        /\ calls[i].src \in {calls[j].src, calls[j].node}
        /\ calls[k].call = "is_safe_operation" /\ calls[k].ok
        /\ calls[k].src = calls[i].src

\* C2: every call of a file operation that changes the filesystem is
\* preceded, in that operation and for the path it works on, by a
\* validate_path that returned and then by an is_safe_operation that returned
\* True.
C2_GateBeforeMutation ==
    \A i \in 1..Len(calls) : calls[i].call \in Mutating => Gated(i)

\* The operations of FileOperationManager
ManagerOperations == { "copy", "move", "rename", "delete" }

\* The operation run last ended where the gate rejected: its last call is a
\* validate_path that raised a security failure or an is_safe_operation that
\* returned False
GateRejected ==
    /\ op.name \in ManagerOperations /\ calls # << >> /\ NoRace(fs)
    /\ calls[Len(calls)].call \in {"validate_path", "is_safe_operation"}
    /\ ~calls[Len(calls)].ok

\* C12: when the gate rejects during copy, move, rename or delete, the caller
\* receives file_operations.PermissionError carrying the gate's reason.
C12_GateRejectionIsPermissionError ==
    GateRejected => outcome = Exc("PermissionError", calls[Len(calls)].reason)

\* A gate call among cs rejected: validate_path raised or is_safe_operation
\* returned False
Rejected(cs) ==
    \E i \in 1..Len(cs) :
        cs[i].call \in {"validate_path", "is_safe_operation"} /\ ~cs[i].ok

\* C13: in TrashManager.trash(path) the move into the trash directory is made
\* only after is_safe_operation(path, operation='delete') returned True for
\* that path; when the gate rejects, trash raises TrashError, every entry of
\* the filesystem stays as it was, and no metadata file is written (the only
\* entry that may be new is the trash directory, made when the manager was
\* constructed).
C13_TrashOnlyAfterGate ==
    [][op'.name = "trash" =>
          /\ \A i \in 1..Len(calls') :
                calls'[i].call = "shutil.move" =>
                    /\ calls'[i].src = op'.args[1]
                    /\ \E k \in 1..(i - 1) :
                          /\ calls'[k].call = "is_safe_operation" /\ calls'[k].ok
                          /\ calls'[k].src = op'.args[1] /\ calls'[k].dst = PyNone
          /\ Rejected(calls') =>
                /\ outcome'.kind = "TrashError"
                /\ \A i \in 1..Len(calls') : calls'[i].call \notin {"shutil.move", "open"}
                /\ \A q \in DOMAIN fs : q \in DOMAIN fs' /\ fs'[q] = fs[q]
                /\ \A q \in DOMAIN fs' : q \in DOMAIN fs \/ q = trash_path]_vars

C13_Witness ==
    /\ op = [name |-> "trash", args |-> << "/media/usb/ro" >>]
    /\ calls[Len(calls)].call = "is_safe_operation" /\ ~calls[Len(calls)].ok
    /\ outcome = Exc("TrashError", "Security check failed: No permission to delete")
    /\ "/media/usb/ro" \in DOMAIN fs

\* Layouts whose links form a cycle l1 -> l2 -> ... -> ln -> l1, of relative
\* links or of absolute ones
CycleLayouts ==
    { ChainLayout(n, TRUE, "l1") : n \in 1..MaxChain }
    \cup { ChainLayout(n, FALSE, "/media/l1") : n \in 1..MaxChain }

InitCycle == InitValidate /\ fs \in CycleLayouts

\* The scheduling of a single thread: a call in progress keeps running
FairValidate == InitCycle /\ [][NextValidate]_vars /\ WF_vars(NextValidate)

(***************************************************************************)
(* Properties of the file operations on symbolic links (checked under      *)
(* SpecLink)                                                               *)
(***************************************************************************)
\* The path is a symbolic link that leads to a file the gate accepts
LinkToAllowedFile(f, path) ==
    /\ islink(f, path)
    /\ stat(f, path).err = ""
    /\ f[stat(f, path).node].kind = "file"
    /\ validate_path(f, path, 0).kind = "ret"

\* C21: when delete (without trash), rename or move succeeds on a path that
\* is a symbolic link to an allowed file, the entry removed, renamed or
\* moved is the symbolic link itself: the link is no longer at the path and
\* the file it pointed to is where and what it was.
C21_SymlinkItselfAffected ==
    [][ ( /\ ops' = ops + 1
          /\ op'.name \in {"delete", "rename", "move"}
          /\ (op'.name = "delete" => ~op'.args[2])
          /\ LinkToAllowedFile(fs, op'.args[1])
          /\ outcome'.kind = "ret" )
        => /\ lstat(fs', op'.args[1]).err # ""
           /\ stat(fs, op'.args[1]).node \in DOMAIN fs'
           /\ fs'[stat(fs, op'.args[1]).node] = fs[stat(fs, op'.args[1]).node] ]_vars

(***************************************************************************)
(* Properties of the file operations while another process changes the     *)
(* filesystem (checked under SpecRace)                                     *)
(***************************************************************************)
\* The calls of copy, move and rename that write their destination
Writing == { "shutil.copy2", "shutil.copytree", "shutil.move", "os.rename" }

\* C22: the entry that the filesystem call of copy, move or rename wrote
\* lies outside every forbidden zone, also when another process changed the
\* filesystem between the gate calls and the filesystem call.
C22_WrittenOutsideForbiddenZone ==
    \A i \in 1..Len(calls) :
        (calls[i].call \in Writing /\ calls[i].ok) => ~InForbiddenZone(calls[i].node)

(***************************************************************************)
(* Properties of the dual-pane screen (checked under SpecUi)               *)
(***************************************************************************)
\* The paths of the entries of the file list loaded in a panel
Shown(pn, panel) == { pn.files[panel][i].path : i \in 1..Len(pn.files[panel]) }

\* C23: after any sequence of actions of the screen, every path in the
\* selection set of a panel is the path of an entry of the file list loaded
\* in that panel.
C23_SelectionWithinFileList ==
    \A panel \in Panels : pane.selected[panel] \subseteq Shown(pane, panel)

(***************************************************************************)
(* Properties of delete with the trash (checked under SpecTrash)           *)
(***************************************************************************)
\* The entry p of the filesystem f and everything under it is in g, at d
MovedTo(f, g, p, d) ==
    \A q \in DOMAIN f : Under(p, q) =>
        \E to \in {d \o SubSeq(q, Len(p) + 1, Len(q))} :
            to \in DOMAIN g /\ g[to] = f[q]

BeforeItem(f, args, i) ==
    batch_operation(f, SubSeq(args[1], 1, i - 1), args[2], args[3], args[4]).fs

\* C26: batch_operation returns one result per item, in the order of the
\* items, goes on after an item failed, and reports success for an item
\* only if the requested copy, move, delete or rename was executed for it
\* without error, whatever the operation argument is.
C26_OneResultPerItem ==
    [][ op'.name = "batch_operation" =>
            /\ outcome'.kind = "ret"
            /\ Len(outcome'.val) = Len(op'.args[1])
            /\ \A i \in 1..Len(op'.args[1]) :
                   /\ outcome'.val[i].item = op'.args[1][i]
                   /\ outcome'.val[i].success =
                          /\ op'.args[2] \in { "copy", "move", "delete", "rename" }
                          /\ batch_operation_item(
                                 BeforeItem(fs, op'.args, i), op'.args[1][i],
                                 op'.args[2], op'.args[3], op'.args[4]).result.kind
                             = "ret" ]_vars

(***************************************************************************)
(* Properties of the screen copying and moving (checked under SpecHandOn)  *)
(***************************************************************************)
\* The filesystem a handler has reached before the i-th of its items
BeforeHanded(name, f, items, i, dst_path) ==
    ItemLoop(name, Progress(<< >>, f, 0, << >>), SubSeq(items, 1, i - 1), 1,
             dst_path, FALSE).fs

\* The source is valid, exists and is readable, and the directory dst_path
\* exists, is outside every forbidden zone and is writable
HandOnExpected(f, src, dst_path) ==
    /\ validate_path(f, src, 0).kind = "ret"
    /\ exists(f, src)
    /\ access(f, src, "r")
    /\ isdir(f, dst_path)
    /\ ~InForbiddenZone(realpath(f, dst_path))
    /\ access(f, dst_path, "w")

\* The handler gave the item src to FileOperationManager
HandedOn(cs, src, dst_path) ==
    \E i \in DOMAIN cs :
        /\ cs[i].call = "is_safe_operation" /\ cs[i].src = src
        /\ cs[i].dst = dst_path /\ cs[i].ok
        /\ i < Len(cs) /\ cs[i + 1].call = "validate_path" /\ cs[i + 1].src = src

\* C27: doCopy and doMove give an item to FileOperationManager whenever its
\* source is valid, exists and is readable and the directory of the
\* destination panel exists, is outside every forbidden zone and is
\* writable, whatever the permissions of that directory's parent are.
C27_HandedOnWhenDestinationWritable ==
    [][ op'.name \in { "copySelected", "moveSelected" } =>
            \A i \in 1..Len(op'.args[1]) :
                HandOnExpected(
                    BeforeHanded(IF op'.name = "copySelected" THEN "doCopy" ELSE "doMove",
                                 fs, op'.args[1], i, OppositePath(pane)),
                    op'.args[1][i], OppositePath(pane))
                => HandedOn(calls', op'.args[1][i], OppositePath(pane)) ]_vars

(***************************************************************************)
(* Properties of the trash (checked under SpecRestore)                     *)
(***************************************************************************)
\* The place in the trash of the item named t, and of its metadata file
TrashItem(t) == join(trash_path, t)
TrashInfo(t) == join(trash_path, t \o ".trashinfo")

\* trash(p) has succeeded with the trash entry t: the item and its metadata
\* file, which names p, are in the trash
Trashed(f, t) == TrashItem(t) \in DOMAIN f /\ TrashInfo(t) \in DOMAIN f

\* path is p with _restored_N put before its extension, N being 1..limit
RestoredName(p, path) ==
    \E N \in 1..RESTORED_LIMIT :
        path = splitext(p).root \o "_restored_" \o str(N) \o splitext(p).ext

\* The item named t is gone from the trash of f and is in g at path
RestoredAt(f, g, t, path) ==
    /\ MovedTo(f, g, TrashItem(t), path)
    /\ TrashItem(t) \notin DOMAIN g
    /\ TrashInfo(t) \notin DOMAIN g

\* C28: after trash(p) succeeded with the trash entry t, restore(t) moves
\* the item back to p when p is free and leaves neither t nor its metadata
\* file in the trash; when p exists again, the entry at p is left as it is
\* and the item is restored under a name p_restored_N that did not exist,
\* N being at most 1000.
C28_TrashRoundTrip ==
    [][ (op'.name = "restore" /\ Trashed(fs, op'.args[1])) =>
            \E p \in {fs[TrashInfo(op'.args[1])].target} :
                /\ outcome'.kind = "ret"
                /\ RestoredAt(fs, fs', op'.args[1], outcome'.val)
                /\ IF p \notin DOMAIN fs THEN outcome'.val = p
                   ELSE /\ fs'[p] = fs[p]
                        /\ outcome'.val \notin DOMAIN fs
                        /\ RestoredName(p, outcome'.val) ]_vars

(***************************************************************************)
(* Properties of SearchEngine (checked under SpecSearch)                   *)
(***************************************************************************)
\* path is a match of the search the worker w ran
MatchOf(w, path) ==
    Under(w.path, path) /\ match_file(basename(path), w.pattern)

\* C29: once search or stop has returned, get_results() holds only matches
\* of the most recent search, and after stop has returned no worker adds
\* an entry until the next search: a worker stopped or superseded adds
\* nothing more and is not set going again by a later search.
C29_OnlyLatestResults ==
    /\ [](search.main = "idle" =>
              \A i \in DOMAIN search.results :
                  /\ search.threads # << >>
                  /\ MatchOf(search.threads[Len(search.threads)], search.results[i]))
    /\ [][ (search.main = "idle" /\ search.stop_event /\ search'.stop_event)
               => search'.results = search.results ]_vars

(***************************************************************************)
(* Properties of CacheManager (checked under SpecCache)                    *)
(***************************************************************************)
\* C30: after the construction (with load_cache) and after every set, get,
\* invalidate, invalidate_directory and clear the cache holds at most
\* max_size entries, and set raises nothing, whatever max_size >= 0.
C30_CacheWithinMaxSize ==
    /\ cache.c.alive => Len(cache.c.cache) <= cache.c.max_size
    /\ op.name = "set" => outcome = Ret(PyNone)

====
